---- MODULE Spec2Model ----
(***************************************************************************)
(* A model of the Grammarly MCP server's core:                             *)
(*   - attemptGrammarlyLogin / detectLoginFailure                          *)
(*       (src/src/browser/stagehand/grammarlyLogin.ts)                     *)
(*   - thresholdsMet / runGrammarlyOptimization, the 1Password provider    *)
(*       (src/src/utils/timeout.ts)                                        *)
(*   - runStagehandGrammarlyTask (the scoring task runner), whose source   *)
(*       is not part of src/ and is modelled from its specification and    *)
(*       its unit tests.                                                   *)
(* Each of the three programs has its own specification (SpecLogin,        *)
(* SpecOpt, SpecTask); the variables of the other two stay idle.           *)
(***************************************************************************)
EXTENDS Integers, Sequences, FiniteSets, TLC

VARIABLES
  \* ---- attemptGrammarlyLogin
  lpc,            \* position in attemptGrammarlyLogin
  hasPage,        \* stagehand.context.pages()[0] is defined
  credentials,    \* [username, password]
  maxRetries,     \* options?.maxRetries ?? DEFAULT_MAX_RETRIES
  attempt,        \* loop variable of the retry loop
  sel,            \* index into emailInputs of the selector tried next
  emailFilled,    \* local emailFilled of the current attempt
  stepsDone,      \* steps the current attempt has performed
  actArgs,        \* every argument passed to stagehand.act
  observeArgs,    \* every argument passed to stagehand.observe
  fillLog,        \* every locator.fill call: [selector, value]
  probeCalls,     \* number of checkGrammarlyAuthStatus calls
  lastProbe,      \* verdict of the most recent probe of this attempt
  lastFailure,    \* most recent detectLoginFailure result
  attemptEnds,    \* how each finished attempt ended
  backoffSleeps,  \* the delays of the backoff sleeps, in order
  loginResult     \* the returned LoginAttemptResult, or NoResult

loginVars == <<lpc, hasPage, credentials, maxRetries, attempt, sel, emailFilled,
               stepsDone, actArgs, observeArgs, fillLog, probeCalls, lastProbe,
               lastFailure, attemptEnds, backoffSleeps, loginResult>>

VARIABLES
  \* ---- runGrammarlyOptimization
  opc,                  \* position in runGrammarlyOptimization
  mode,                 \* input.mode
  maxIterations,        \* input.max_iterations
  maxAiPercent,         \* input.max_ai_percent
  maxPlagiarismPercent, \* input.max_plagiarism_percent
  currentText,          \* 0 is the input text, k the k-th rewrite's output
  lastScores,           \* GrammarlyScores | null
  iteration,            \* loop variable of the optimization loop
  iterationsUsed,
  reachedThresholds,
  history,              \* HistoryEntry[]
  sessionId,            \* string | null
  calls,                \* the calls made to the collaborators, in order
  progress,             \* the percentages passed to onProgress, times max_iterations
  completion,           \* how the try block completed: a result or a thrown error
  outcome               \* what runGrammarlyOptimization returned or threw

optVars == <<opc, mode, maxIterations, maxAiPercent, maxPlagiarismPercent,
             currentText, lastScores, iteration, iterationsUsed, reachedThresholds,
             history, sessionId, calls, progress, completion, outcome>>

VARIABLES
  \* ---- runStagehandGrammarlyTask (the scoring task runner)
  tpc,          \* position in runStagehandGrammarlyTask
  taskInput,    \* [hasPage, appConfig, debugUrl, text]
  taskCalls,    \* the calls made to the collaborators, in order
  extractError, \* the error of the primary extraction, once it failed
  taskOutcome   \* the scores returned or the error thrown

taskVars == <<tpc, taskInput, taskCalls, extractError, taskOutcome>>

VARIABLES
  \* ---- a Claude request: chooseClaudeModel, then the call under withTimeout
  wpc,          \* position in the request
  request,      \* [textLength, iterations]
  modelTier,    \* what chooseClaudeModel returned
  fn,           \* what the operation passed to withTimeout does
  timeoutMs,
  onTimeout,    \* undefined, a callback that returns, or one that throws
  fnPromise,    \* the promise fn() returned
  timeoutId,    \* undefined, or the state of the timer it names
  race,         \* the promise of Promise.race
  events,       \* the settling of fn's promise and the firing of the timer, in order
  uncaught,     \* exceptions thrown out of the timer callback
  settlement    \* how the promise of withTimeout settled

timeoutVars == <<wpc, request, modelTier, fn, timeoutMs, onTimeout, fnPromise,
                 timeoutId, race, events, uncaught, settlement>>

vars == <<loginVars, optVars, taskVars, timeoutVars>>

\* ------------------------------------------------------------------------
\* Bounds of the model
\* ------------------------------------------------------------------------
MaxRetriesBound == 2
MaxIterBound == 2

\* ------------------------------------------------------------------------
\* grammarlyLogin.ts
\* ------------------------------------------------------------------------
DEFAULT_MAX_RETRIES == 1
baseDelayMs == 2000
maxDelayMs == 30000

Min(a, b) == IF a <= b THEN a ELSE b

\* Mutant: the delay is not capped.
BackoffDelayUncapped(k) == baseDelayMs * (2 ^ k)

\* Math.min(baseDelayMs * 2 ** attempt, maxDelayMs)
BackoffDelay(k) == Min(baseDelayMs * (2 ^ k), maxDelayMs)

\* The credential pairs a run may be given (opaque secret values).
CredentialChoices ==
  { [username |-> "user-A", password |-> "secret-A"],
    [username |-> "user-B", password |-> "secret-B"] }

\* An argument of act/observe is a template: a sequence of parts, each a string
\* literal of the source, an observed element, or an interpolated value.
Contains(arg, value) == \E i \in 1..Len(arg) : arg[i] = value

ObserveEmailLoginQuery ==
  << "Find the 'Log in with email' button or 'Continue with email' option" >>
ObserveEmailFieldQuery ==
  << "Find the email or username input field for logging into Grammarly" >>
ObservePasswordQuery == << "Find the password input field" >>
ObserveErrorQuery ==
  << "Find any error messages about invalid credentials, wrong password, account locked, CAPTCHA challenges, rate limits, or 'too many attempts' warnings" >>
ActFirstEmailButton == << "element:firstEmailButton" >>
\* Mutant: the fallback instruction interpolates the username.
ActEmailFallbackLeaky(creds) ==
  << "Click on the email input field and type ", creds.username >>

ActEmailFallback(creds) == << "Click on the email input field and type the email" >>
ActSubmitEmail ==
  << "Click the 'Continue' or 'Next' button to proceed after entering email" >>
ActSubmitLogin ==
  << "Click the 'Log in', 'Sign in', or submit button to complete login" >>

emailInputs ==
  << "input[type=email]", "input[type=text]", "input[name*=email]",
     "input[name*=username]" >>
passwordSelector == "input[type=password]"

Undefined == "undefined"
NoResult == [returned |-> FALSE]

LoginAttemptResult(success, error, invalid, captcha, rate) ==
  [returned |-> TRUE, success |-> success, error |-> error,
   invalidCredentials |-> invalid, captchaDetected |-> captcha,
   rateLimited |-> rate]

\* Partial<LoginAttemptResult> as returned by detectLoginFailure.
Failure(error, invalid, captcha, rate) ==
  [error |-> error, invalidCredentials |-> invalid, captchaDetected |-> captcha,
   rateLimited |-> rate]
NoFailure == Failure(Undefined, FALSE, FALSE, FALSE)

\* A text is a sequence of words; a keyword is a sequence of lowercase words.
CaptchaKeywords ==
  { << "captcha" >>, << "verify" >>, << "robot" >>, << "not", "a", "robot" >> }
RateKeywords ==
  { << "too", "many" >>, << "rate" >>, << "try", "again", "later" >>,
    << "temporarily", "blocked" >> }
InvalidKeywords ==
  { << "invalid" >>, << "incorrect" >>, << "wrong" >>, << "not", "found" >>,
    << "doesn't", "match" >> }

\* String.prototype.toLowerCase, on the words of the sample descriptions.
ToLowerCase(word) ==
  CASE word = "Too" -> "too"
    [] word = "Invalid" -> "invalid"
    [] word = "Incorrect" -> "incorrect"
    [] word = "CAPTCHA" -> "captcha"
    [] word = "Please" -> "please"
    [] word = "Something" -> "something"
    [] OTHER -> word

\* A word of the text includes a word of a keyword when it is that word or has
\* it as a substring.
WordIncludes(word, part) ==
  \/ word = part
  \/ << word, part >> \in { << "generate", "rate" >>, << "recaptcha", "captcha" >> }

\* String.prototype.includes
Includes(text, keyword) ==
  \E i \in 1..(Len(text) - Len(keyword) + 1) :
    \A j \in 1..Len(keyword) : WordIncludes(text[i + j - 1], keyword[j])

IncludesAny(text, keywords) == \E k \in keywords : Includes(text, k)

\* errorIndicators.map(e => e.description?.toLowerCase() ?? "").join(" ")
RECURSIVE ErrorText(_)
ErrorText(items) ==
  IF items = << >> THEN << >>
  ELSE [i \in 1..Len(Head(items)) |-> ToLowerCase(Head(items)[i])]
       \o ErrorText(Tail(items))

\* Mutant: the rate-limit keywords are looked for before the CAPTCHA keywords.
DetectLoginFailureRateFirst(pagePresent, obs) ==
  IF ~pagePresent THEN NoFailure
  ELSE IF obs.threw THEN NoFailure
  ELSE IF Len(obs.items) = 0 THEN NoFailure
  ELSE LET errorText == ErrorText(obs.items) IN
       IF IncludesAny(errorText, RateKeywords)
         THEN Failure("Rate limit triggered", FALSE, FALSE, TRUE)
       ELSE IF IncludesAny(errorText, CaptchaKeywords)
         THEN Failure("CAPTCHA challenge detected", FALSE, TRUE, FALSE)
       ELSE IF IncludesAny(errorText, InvalidKeywords)
         THEN Failure("Invalid credentials", TRUE, FALSE, FALSE)
       ELSE Failure("Login error detected", FALSE, FALSE, FALSE)

\* Mutant: a failing observation is reported as an error of the login.
DetectLoginFailureReportingObserveError(pagePresent, obs) ==
  IF ~pagePresent THEN NoFailure
  ELSE IF obs.threw THEN Failure("Observe failed", FALSE, FALSE, FALSE)
  ELSE IF Len(obs.items) = 0 THEN NoFailure
  ELSE LET errorText == ErrorText(obs.items) IN
       IF IncludesAny(errorText, CaptchaKeywords)
         THEN Failure("CAPTCHA challenge detected", FALSE, TRUE, FALSE)
       ELSE IF IncludesAny(errorText, RateKeywords)
         THEN Failure("Rate limit triggered", FALSE, FALSE, TRUE)
       ELSE IF IncludesAny(errorText, InvalidKeywords)
         THEN Failure("Invalid credentials", TRUE, FALSE, FALSE)
       ELSE Failure("Login error detected", FALSE, FALSE, FALSE)

\* detectLoginFailure: obs = [threw, items] is what stagehand.observe did, items
\* being the descriptions of the observed elements.
DetectLoginFailure(pagePresent, obs) ==
  IF ~pagePresent THEN NoFailure
  ELSE IF obs.threw THEN NoFailure
  ELSE IF Len(obs.items) = 0 THEN NoFailure
  ELSE LET errorText == ErrorText(obs.items) IN
       IF IncludesAny(errorText, CaptchaKeywords)
         THEN Failure("CAPTCHA challenge detected", FALSE, TRUE, FALSE)
       ELSE IF IncludesAny(errorText, RateKeywords)
         THEN Failure("Rate limit triggered", FALSE, FALSE, TRUE)
       ELSE IF IncludesAny(errorText, InvalidKeywords)
         THEN Failure("Invalid credentials", TRUE, FALSE, FALSE)
       ELSE Failure("Login error detected", FALSE, FALSE, FALSE)

\* Descriptions the error observation may return; a missing description counts
\* as the empty text (?? "").
DescriptionChoices ==
  { << >>,
    << "Something", "happened" >>,
    << "Invalid", "password", "error", "message" >>,
    << "Please", "verify", "you", "are", "not", "a", "robot" >>,
    << "Too", "many", "login", "attempts", "try", "again", "later" >>,
    << "Too", "many", "invalid", "attempts" >>,
    << "wrong", "answer", "to", "the", "CAPTCHA" >>,
    << "Incorrect", "password", "generate", "a", "new", "one" >>,
    << "account", "not" >>,
    << "found" >> }

\* Descriptions of a second observed element.
SecondDescriptionChoices ==
  { << >>,
    << "Too", "many", "invalid", "attempts" >>,
    << "found" >> }

ErrorObservations ==
  { [threw |-> TRUE, items |-> << >>], [threw |-> FALSE, items |-> << >>] }
  \cup { [threw |-> FALSE, items |-> << d >>] : d \in DescriptionChoices }
  \cup { [threw |-> FALSE, items |-> << d, e >>] :
           d \in DescriptionChoices, e \in SecondDescriptionChoices }

\* What detectLoginFailure may return, over the observations.
FailuresWithPage == { DetectLoginFailure(TRUE, obs) : obs \in ErrorObservations }
FailuresWithoutPage == { DetectLoginFailure(FALSE, obs) : obs \in ErrorObservations }
DetectedFailures(pagePresent) ==
  IF pagePresent THEN FailuresWithPage ELSE FailuresWithoutPage

\* Mutant: a rate-limited failure is not treated as classified.
ClassifiedWithoutRateLimit(f) == f.invalidCredentials \/ f.captchaDetected

Classified(f) == f.invalidCredentials \/ f.captchaDetected \/ f.rateLimited


\* ------------------------------------------------------------------------
\* attemptGrammarlyLogin, one action per awaited step.  The fixed sleeps after
\* the UI steps (2000, 1500, 500, 2000, 500, 3000 ms) change no state and are
\* part of the step that precedes them.
\* ------------------------------------------------------------------------
OptionChoices ==
  { [given |-> FALSE, maxRetries |-> 0] }
  \cup { [given |-> TRUE, maxRetries |-> n] : n \in 0..MaxRetriesBound }

\* options?.maxRetries ?? DEFAULT_MAX_RETRIES
ResolveMaxRetries(options) ==
  IF options.given THEN options.maxRetries ELSE DEFAULT_MAX_RETRIES

LoginInit ==
  /\ lpc = "start"
  /\ hasPage \in BOOLEAN
  /\ credentials \in CredentialChoices
  /\ maxRetries \in { ResolveMaxRetries(o) : o \in OptionChoices }
  /\ attempt = 0
  /\ sel = 1
  /\ emailFilled = FALSE
  /\ stepsDone = {}
  /\ actArgs = {}
  /\ observeArgs = {}
  /\ fillLog = {}
  /\ probeCalls = 0
  /\ lastProbe = "none"
  /\ lastFailure = NoFailure
  /\ attemptEnds = << >>
  /\ backoffSleeps = << >>
  /\ loginResult = NoResult

loginInputs == <<hasPage, credentials, maxRetries>>
loginLogs == <<actArgs, observeArgs, fillLog, probeCalls>>
loginLocals == <<sel, emailFilled, stepsDone, lastProbe, lastFailure>>

\* Continue the current attempt at the next step.
Goto(next) ==
  /\ lpc' = next
  /\ UNCHANGED <<attempt, backoffSleeps, loginResult, attemptEnds>>

\* return <result> from attemptGrammarlyLogin
Return(result, how) ==
  /\ loginResult' = result
  /\ attemptEnds' = Append(attemptEnds, how)
  /\ lpc' = "done"
  /\ UNCHANGED <<attempt, backoffSleeps>>

\* Mutant: an exception in the last attempt falls through to the end of the loop.
CatchFallingThrough ==
  /\ backoffSleeps' = IF attempt < maxRetries
                        THEN Append(backoffSleeps, BackoffDelay(attempt))
                        ELSE backoffSleeps
  /\ attemptEnds' = Append(attemptEnds, "thrown")
  /\ attempt' = attempt + 1
  /\ lpc' = "loop"
  /\ UNCHANGED loginResult

\* Mutant: the exception of the last attempt is thrown on to the caller.
CatchRethrowing ==
  IF attempt >= maxRetries
    THEN Return(NoResult, "thrown")
    ELSE /\ backoffSleeps' = Append(backoffSleeps, BackoffDelay(attempt))
         /\ attemptEnds' = Append(attemptEnds, "thrown")
         /\ attempt' = attempt + 1
         /\ lpc' = "loop"
         /\ UNCHANGED loginResult

\* The catch block of the retry loop (lines 253-270).
Catch ==
  IF attempt >= maxRetries
    THEN Return(LoginAttemptResult(FALSE, "error.message", FALSE, FALSE, FALSE),
                "thrown")
    ELSE /\ backoffSleeps' = Append(backoffSleeps, BackoffDelay(attempt))
         /\ attemptEnds' = Append(attemptEnds, "thrown")
         /\ attempt' = attempt + 1
         /\ lpc' = "loop"
         /\ UNCHANGED loginResult

\* Lines 124-127: no page, no attempt.
LoginStart ==
  /\ lpc = "start"
  /\ IF ~hasPage
       THEN Return(LoginAttemptResult(FALSE, "No page available in Stagehand context",
                                      FALSE, FALSE, FALSE), "noPage")
       ELSE Goto("loop")
  /\ UNCHANGED <<loginInputs, loginLogs, loginLocals>>

\* Mutant: the loop test is attempt < maxRetries.
LoopTestOffByOne ==
  /\ lpc = "loop"
  /\ IF attempt < maxRetries
       THEN /\ Goto("navigate")
            /\ sel' = 1
            /\ emailFilled' = FALSE
            /\ stepsDone' = {}
            /\ lastProbe' = "none"
            /\ lastFailure' = NoFailure
       ELSE /\ loginResult' = LoginAttemptResult(FALSE,
                                "Login failed after all retry attempts",
                                FALSE, FALSE, FALSE)
            /\ lpc' = "done"
            /\ UNCHANGED <<attempt, backoffSleeps, attemptEnds, loginLocals>>
  /\ UNCHANGED <<loginInputs, loginLogs>>

\* Line 129 (loop test) and line 273 (after the loop).
LoopTest ==
  /\ lpc = "loop"
  /\ IF attempt <= maxRetries
       THEN /\ Goto("navigate")
            /\ sel' = 1
            /\ emailFilled' = FALSE
            /\ stepsDone' = {}
            /\ lastProbe' = "none"
            /\ lastFailure' = NoFailure
       ELSE /\ loginResult' = LoginAttemptResult(FALSE,
                                "Login failed after all retry attempts",
                                FALSE, FALSE, FALSE)
            /\ lpc' = "done"
            /\ UNCHANGED <<attempt, backoffSleeps, attemptEnds, loginLocals>>
  /\ UNCHANGED <<loginInputs, loginLogs>>

\* Step 1 (lines 131-142): page.goto unless the URL is a signin/login page.
Navigate ==
  /\ lpc = "navigate"
  /\ \/ /\ Goto("observeEmailButton")          \* already on the login page
        /\ UNCHANGED stepsDone
     \/ Goto("observeEmailButton")             \* page.goto resolved
     \/ Catch                                  \* page.goto rejected
  /\ UNCHANGED <<loginInputs, loginLogs, loginLocals>>

\* Step 2 (lines 144-149): observe the "Log in with email" option.
ObserveEmailButton ==
  /\ lpc = "observeEmailButton"
  /\ observeArgs' = observeArgs \cup {ObserveEmailLoginQuery}
  /\ \/ Goto("observeEmailField")              \* nothing observed: step skipped
     \/ Goto("actEmailButton")                 \* firstEmailButton is defined
     \/ Catch
  /\ UNCHANGED <<loginInputs, actArgs, fillLog, probeCalls, loginLocals>>

\* Lines 150-153: act on the observed element.
ActEmailButton ==
  /\ lpc = "actEmailButton"
  /\ actArgs' = actArgs \cup {ActFirstEmailButton}
  /\ \/ Goto("observeEmailField")
     \/ Catch
  /\ UNCHANGED <<loginInputs, observeArgs, fillLog, probeCalls, loginLocals>>

\* Step 3 (lines 155-159): observe the email field (the result is not used).
ObserveEmailField ==
  /\ lpc = "observeEmailField"
  /\ observeArgs' = observeArgs \cup {ObserveEmailFieldQuery}
  /\ \/ Goto("fillEmail")
     \/ Catch
  /\ UNCHANGED <<loginInputs, actArgs, fillLog, probeCalls, loginLocals>>

\* After a selector that was not filled: the next one, or the end of the list.
NextSelector ==
  /\ sel' = sel + 1
  /\ Goto(IF sel < Len(emailInputs) THEN "fillEmail" ELSE "emailFallback")

\* The steps of one iteration over emailInputs, by the index of the selector:
\* the locator was asked whether it is visible; locator.fill was called.
TriedStep == << "tried1", "tried2", "tried3", "tried4" >>
FillStep == << "fill1", "fill2", "fill3", "fill4" >>

\* Mutant: the loop over emailInputs does not break after a successful fill.
TryEmailSelectorWithoutBreak ==
  /\ lpc = "fillEmail"
  /\ \/ /\ NextSelector
        /\ stepsDone' = stepsDone \cup {"tryEmail", TriedStep[sel]}
        /\ UNCHANGED <<fillLog, emailFilled>>
     \/ /\ fillLog' = fillLog \cup
             {[selector |-> emailInputs[sel], value |-> credentials.username]}
        /\ stepsDone' = stepsDone \cup {"tryEmail", TriedStep[sel], FillStep[sel]}
        /\ emailFilled' = TRUE
        /\ sel' = sel + 1
        /\ Goto(IF sel < Len(emailInputs) THEN "fillEmail" ELSE "submitEmail")
     \/ /\ fillLog' = fillLog \cup
             {[selector |-> emailInputs[sel], value |-> credentials.username]}
        /\ stepsDone' = stepsDone \cup {"tryEmail", TriedStep[sel], FillStep[sel]}
        /\ NextSelector
        /\ UNCHANGED emailFilled
  /\ UNCHANGED <<loginInputs, actArgs, observeArgs, probeCalls, lastProbe,
                 lastFailure>>

\* Lines 171-182: one iteration of the loop over emailInputs.
TryEmailSelector ==
  /\ lpc = "fillEmail"
  /\ \/ /\ NextSelector                        \* not visible, or isVisible threw
        /\ stepsDone' = stepsDone \cup {"tryEmail", TriedStep[sel]}
        /\ UNCHANGED <<fillLog, emailFilled>>
     \/ /\ fillLog' = fillLog \cup             \* visible and filled
             {[selector |-> emailInputs[sel], value |-> credentials.username]}
        /\ stepsDone' = stepsDone \cup {"tryEmail", TriedStep[sel], FillStep[sel]}
        /\ emailFilled' = TRUE
        /\ Goto("submitEmail")
        /\ UNCHANGED sel
     \/ /\ fillLog' = fillLog \cup             \* visible, fill threw: next selector
             {[selector |-> emailInputs[sel], value |-> credentials.username]}
        /\ stepsDone' = stepsDone \cup {"tryEmail", TriedStep[sel], FillStep[sel]}
        /\ NextSelector
        /\ UNCHANGED emailFilled
  /\ UNCHANGED <<loginInputs, actArgs, observeArgs, probeCalls, lastProbe,
                 lastFailure>>

\* Lines 184-190: no selector was filled, fall back to stagehand.act.
EmailFallback ==
  /\ lpc = "emailFallback"
  /\ actArgs' = actArgs \cup {ActEmailFallback(credentials)}
  /\ stepsDone' = stepsDone \cup {"emailFallbackAct"}
  /\ \/ Goto("submitEmail")
     \/ Catch
  /\ UNCHANGED <<loginInputs, observeArgs, fillLog, probeCalls, sel, emailFilled,
                 lastProbe, lastFailure>>

\* Step 4 (lines 192-196).
SubmitEmail ==
  /\ lpc = "submitEmail"
  /\ actArgs' = actArgs \cup {ActSubmitEmail}
  /\ stepsDone' = stepsDone \cup {"submitEmail"}
  /\ \/ Goto("observePassword")
     \/ Catch
  /\ UNCHANGED <<loginInputs, observeArgs, fillLog, probeCalls, sel, emailFilled,
                 lastProbe, lastFailure>>

\* Mutant: the password is filled whatever the password observation returned.
ObservePasswordFillingAnyway ==
  /\ lpc = "observePassword"
  /\ observeArgs' = observeArgs \cup {ObservePasswordQuery}
  /\ \/ /\ Goto("fillPassword")
        /\ stepsDone' = stepsDone \cup {"observePassword", "passwordObserved"}
     \/ /\ Goto("fillPassword")
        /\ stepsDone' = stepsDone \cup {"observePassword"}
     \/ /\ Goto("passwordMissing")
        /\ stepsDone' = stepsDone \cup {"observePassword"}
     \/ /\ Catch
        /\ stepsDone' = stepsDone \cup {"observePassword"}
  /\ UNCHANGED <<loginInputs, actArgs, fillLog, probeCalls, sel, emailFilled,
                 lastProbe, lastFailure>>

\* Step 5 (lines 198-204): observe the password field.
ObservePassword ==
  /\ lpc = "observePassword"
  /\ observeArgs' = observeArgs \cup {ObservePasswordQuery}
  /\ \/ /\ Goto("fillPassword")                \* passwordObservation non-empty
        /\ stepsDone' = stepsDone \cup {"observePassword", "passwordObserved"}
     \/ /\ Goto("passwordMissing")             \* passwordObservation.length === 0
        /\ stepsDone' = stepsDone \cup {"observePassword"}
     \/ /\ Catch
        /\ stepsDone' = stepsDone \cup {"observePassword"}
  /\ UNCHANGED <<loginInputs, actArgs, fillLog, probeCalls, sel, emailFilled,
                 lastProbe, lastFailure>>

\* Mutant: the classifier's result is dropped and the fixed error returned.
PasswordMissingIgnoringClassifier ==
  /\ lpc = "passwordMissing"
  /\ \E failure \in DetectedFailures(hasPage) :
       /\ lastFailure' = failure
       /\ Return(LoginAttemptResult(FALSE, "Password field not found",
                                    FALSE, FALSE, FALSE), "passwordMissing")
  /\ observeArgs' = observeArgs \cup {ObserveErrorQuery}
  /\ UNCHANGED <<loginInputs, actArgs, fillLog, probeCalls, sel, emailFilled,
                 stepsDone, lastProbe>>

\* Lines 204-211: password field not found.
PasswordMissing ==
  /\ lpc = "passwordMissing"
  /\ \E failure \in DetectedFailures(hasPage) :
       /\ lastFailure' = failure
       /\ IF failure.error # Undefined
            THEN Return(LoginAttemptResult(FALSE, failure.error,
                          failure.invalidCredentials, failure.captchaDetected,
                          failure.rateLimited), "passwordMissing")
            ELSE Return(LoginAttemptResult(FALSE, "Password field not found",
                          FALSE, FALSE, FALSE), "passwordMissing")
  /\ observeArgs' = observeArgs \cup {ObserveErrorQuery}
  /\ UNCHANGED <<loginInputs, actArgs, fillLog, probeCalls, sel, emailFilled,
                 stepsDone, lastProbe>>

\* Lines 213-218: the password goes through locator.fill.
FillPassword ==
  /\ lpc = "fillPassword"
  /\ fillLog' = fillLog \cup
       {[selector |-> passwordSelector, value |-> credentials.password]}
  /\ stepsDone' = stepsDone \cup {"fillPassword"}
  /\ \/ Goto("submitLogin")
     \/ Catch
  /\ UNCHANGED <<loginInputs, actArgs, observeArgs, probeCalls, sel, emailFilled,
                 lastProbe, lastFailure>>

\* Step 6 (lines 220-224).
SubmitLogin ==
  /\ lpc = "submitLogin"
  /\ actArgs' = actArgs \cup {ActSubmitLogin}
  /\ stepsDone' = stepsDone \cup {"submitLogin"}
  /\ \/ Goto("probe")
     \/ Catch
  /\ UNCHANGED <<loginInputs, observeArgs, fillLog, probeCalls, sel, emailFilled,
                 lastProbe, lastFailure>>

\* Step 7 (lines 226-232): checkGrammarlyAuthStatus.
VerifyAuth ==
  /\ lpc = "probe"
  /\ probeCalls' = probeCalls + 1
  /\ stepsDone' = stepsDone \cup {"probe"}
  /\ \/ /\ lastProbe' = "loggedIn"
        /\ Return(LoginAttemptResult(TRUE, Undefined, FALSE, FALSE, FALSE),
                  "success")
     \/ /\ lastProbe' = "notLoggedIn"
        /\ Goto("classify")
     \/ /\ lastProbe' = "threw"
        /\ Catch
  /\ UNCHANGED <<loginInputs, actArgs, observeArgs, fillLog, sel, emailFilled,
                 lastFailure>>

\* Mutant: an unclassified failure is returned at once instead of retried.
RetryUnclassifiedReturning ==
  Return(LoginAttemptResult(FALSE, "Login error detected", FALSE, FALSE, FALSE),
         "unclassified")

\* The retry at the end of an unclassified attempt (lines 245-252).
RetryUnclassified ==
  /\ attemptEnds' = Append(attemptEnds, "unclassified")
  /\ backoffSleeps' = IF attempt < maxRetries
                        THEN Append(backoffSleeps, BackoffDelay(attempt))
                        ELSE backoffSleeps
  /\ attempt' = attempt + 1
  /\ lpc' = "loop"
  /\ UNCHANGED loginResult

\* Lines 234-252: classify the failure; classified failures return at once.
ClassifyFailure ==
  /\ lpc = "classify"
  /\ \E failure \in DetectedFailures(hasPage) :
       /\ lastFailure' = failure
       /\ IF Classified(failure)
            THEN Return(LoginAttemptResult(FALSE, failure.error,
                          failure.invalidCredentials, failure.captchaDetected,
                          failure.rateLimited), "terminal")
            ELSE RetryUnclassified
  /\ observeArgs' = observeArgs \cup {ObserveErrorQuery}
  /\ stepsDone' = stepsDone \cup {"classify"}
  /\ UNCHANGED <<loginInputs, actArgs, fillLog, probeCalls, sel, emailFilled,
                 lastProbe>>

\* The login machine when another program is the one running.
LoginIdle ==
  /\ lpc = "idle"
  /\ hasPage = TRUE
  /\ credentials = [username |-> "user-A", password |-> "secret-A"]
  /\ maxRetries = DEFAULT_MAX_RETRIES
  /\ attempt = 0
  /\ sel = 1
  /\ emailFilled = FALSE
  /\ stepsDone = {}
  /\ actArgs = {}
  /\ observeArgs = {}
  /\ fillLog = {}
  /\ probeCalls = 0
  /\ lastProbe = "none"
  /\ lastFailure = NoFailure
  /\ attemptEnds = << >>
  /\ backoffSleeps = << >>
  /\ loginResult = NoResult


\* ------------------------------------------------------------------------
\* thresholdsMet and runGrammarlyOptimization (timeout.ts, lines 335-589)
\* ------------------------------------------------------------------------
NULL == -1                                   \* a percent field that is null

\* Percent values the scoring task may extract, and the maxima of a run.
PercentValues == {NULL, 5, 15}
ThresholdChoices == { <<10, 5>>, <<5, 15>> }
ScoreChoices ==
  { [aiDetectionPercent |-> a, plagiarismPercent |-> p] :
      a \in PercentValues, p \in PercentValues }
Modes == {"score_only", "optimize", "analyze"}
NullSession == "null"
SessionIds == {"session-1", "session-2"}

\* if (sessionId): neither null nor the empty string
Truthy(id) == id # NullSession /\ id # ""

\* Mutant: the AI percent is compared the wrong way round.
ThresholdsMetComparingBackwards(scores, maxAi, maxPlagiarism) ==
  LET aiUnavailable == scores.aiDetectionPercent = NULL
      plagiarismUnavailable == scores.plagiarismPercent = NULL
      aiOk == IF scores.aiDetectionPercent = NULL
                THEN TRUE ELSE scores.aiDetectionPercent >= maxAi
      plagiarismOk == IF scores.plagiarismPercent = NULL
                        THEN TRUE ELSE scores.plagiarismPercent <= maxPlagiarism
  IN IF aiUnavailable /\ plagiarismUnavailable THEN FALSE
     ELSE aiOk /\ plagiarismOk

\* Mutant: the both-unavailable case is not rejected.
ThresholdsMetWithoutNullCheck(scores, maxAi, maxPlagiarism) ==
  LET aiOk == IF scores.aiDetectionPercent = NULL
                THEN TRUE ELSE scores.aiDetectionPercent <= maxAi
      plagiarismOk == IF scores.plagiarismPercent = NULL
                        THEN TRUE ELSE scores.plagiarismPercent <= maxPlagiarism
  IN aiOk /\ plagiarismOk

\* Mutant: an unavailable percent counts as 0.
ThresholdsMetTreatingNullAsZero(scores, maxAi, maxPlagiarism) ==
  LET ai == IF scores.aiDetectionPercent = NULL THEN 0 ELSE scores.aiDetectionPercent
      plagiarism == IF scores.plagiarismPercent = NULL THEN 0 ELSE scores.plagiarismPercent
  IN ai <= maxAi /\ plagiarism <= maxPlagiarism

ThresholdsMet(scores, maxAi, maxPlagiarism) ==
  LET aiUnavailable == scores.aiDetectionPercent = NULL
      plagiarismUnavailable == scores.plagiarismPercent = NULL
      aiOk == IF scores.aiDetectionPercent = NULL
                THEN TRUE ELSE scores.aiDetectionPercent <= maxAi
      plagiarismOk == IF scores.plagiarismPercent = NULL
                        THEN TRUE ELSE scores.plagiarismPercent <= maxPlagiarism
  IN IF aiUnavailable /\ plagiarismUnavailable THEN FALSE
     ELSE aiOk /\ plagiarismOk

\* Mutant: an unavailable percent is entered in the history as 0.
HistoryEntryCoercingNull(i, scores) ==
  [iteration |-> i,
   ai_detection_percent |->
     IF scores.aiDetectionPercent = NULL THEN 0 ELSE scores.aiDetectionPercent,
   plagiarism_percent |->
     IF scores.plagiarismPercent = NULL THEN 0 ELSE scores.plagiarismPercent]

HistoryEntry(i, scores) ==
  [iteration |-> i, ai_detection_percent |-> scores.aiDetectionPercent,
   plagiarism_percent |-> scores.plagiarismPercent]

NoScores == [isNull |-> TRUE]
NoCompletion == [kind |-> "none"]
Returned(result) == [kind |-> "result", result |-> result]
Thrown(error) == [kind |-> "error", error |-> error]

\* Mutant: the result always carries the original text (text 0).
GrammarlyOptimizeResultKeepingInput(text, scores, used, met, hist, notes) ==
  [final_text |-> 0,
   ai_detection_percent |-> scores.aiDetectionPercent,
   plagiarism_percent |-> scores.plagiarismPercent,
   iterations_used |-> used, thresholds_met |-> met, history |-> hist,
   notes |-> notes]

GrammarlyOptimizeResult(text, scores, used, met, hist, notes) ==
  [final_text |-> text,
   ai_detection_percent |-> scores.aiDetectionPercent,
   plagiarism_percent |-> scores.plagiarismPercent,
   iterations_used |-> used, thresholds_met |-> met, history |-> hist,
   notes |-> notes]

\* One call to a collaborator: the operation, the session and text it was given,
\* the scores it was given (rewrite, analysis) or returned (scoring), and
\* whether it resolved.
\* buildGrammarlyTaskPrompt: the lines of the task, joined, with the text to
\* evaluate between the two markers.
BuildGrammarlyTaskPrompt(text) ==
  [before |-> << "You are controlling a real browser that is already logged into a Grammarly or Superhuman account.",
                 "3. Paste the provided text exactly into the main editor area.",
                 "User text to evaluate (paste exactly as shown between markers):",
                 "<START_USER_TEXT>" >>,
   userText |-> text,
   after |-> << "<END_USER_TEXT>" >>]

NoTask == "none"
NoOutput == "none"

\* A scoring call is runGrammarlyScoreTask, which hands the task prompt built
\* from the text to client.tasks.createTask.
Call(op, session, text, scores, ok) ==
  [op |-> op, session |-> session, text |-> text, scores |-> scores, ok |-> ok,
   task |-> IF op = "score" THEN BuildGrammarlyTaskPrompt(text) ELSE NoTask,
   output |-> NoOutput]

\* A call together with the text its collaborator returned.
CallWithOutput(op, session, text, scores, ok, output) ==
  [Call(op, session, text, scores, ok) EXCEPT !.output = output]

\* What analyzeTextWithClaude may return.
AnalysisChoices == {"analysis-A", "analysis-B"}

\* A percentage, scaled by max_iterations so that it stays an integer.
Percent(x) == x * maxIterations
\* 15 + ((iteration - 1) / maxIterations) * 70, times maxIterations
IterationProgressOf(i, m) == 15 * m + (i - 1) * 70

\* Mutant: the loop is given 80 percent instead of 70.
ScoringProgressOvershooting(i, m) == 15 * m + i * 80

\* 15 + (iteration / maxIterations) * 70, times maxIterations
ScoringProgressOf(i, m) == 15 * m + i * 70

IterationProgress(i) == IterationProgressOf(i, maxIterations)
ScoringProgress(i) == ScoringProgressOf(i, maxIterations)

OptInit ==
  /\ opc = "start"
  /\ mode \in Modes
  /\ maxIterations \in 1..MaxIterBound
  /\ \E t \in ThresholdChoices :
       /\ maxAiPercent = t[1]
       /\ maxPlagiarismPercent = t[2]
  /\ currentText = 0
  /\ lastScores = NoScores
  /\ iteration = 0
  /\ iterationsUsed = 0
  /\ reachedThresholds = FALSE
  /\ history = << >>
  /\ sessionId = NullSession
  /\ calls = << >>
  /\ progress = << >>
  /\ completion = NoCompletion
  /\ outcome = NoCompletion

optInputs == <<mode, maxIterations, maxAiPercent, maxPlagiarismPercent>>
optLocals == <<currentText, lastScores, iteration, iterationsUsed,
               reachedThresholds, history>>

\* Mutant: an error inside the try block is swallowed and what was gathered so
\* far is returned.
ThrowReturningPartialResult(error) ==
  /\ completion' = Returned([final_text |-> currentText, history |-> history,
                             notes |-> error])
  /\ opc' = "finally"

\* An error thrown inside the try block: control passes to the finally block.
Throw(error) ==
  /\ completion' = Thrown(error)
  /\ opc' = "finally"

\* A return statement inside the try block.
ReturnResult(result) ==
  /\ completion' = Returned(result)
  /\ opc' = "finally"

Continue(next) ==
  /\ opc' = next
  /\ UNCHANGED completion

Report(x) == progress' = Append(progress, x)

\* Lines 391-394, before the try block: nothing to tear down yet.
OptStart ==
  /\ opc = "start"
  /\ Report(Percent(5))
  /\ \/ /\ Continue("createSession")
        /\ UNCHANGED outcome
     \/ /\ \E e \in {"onProgress failed", "createBrowserUseClient failed"} :
             outcome' = Thrown(e)
        /\ opc' = "done"
        /\ UNCHANGED completion
  /\ UNCHANGED <<optInputs, optLocals, sessionId, calls>>

\* Line 398.
CreateSession ==
  /\ opc = "createSession"
  /\ \/ /\ \E id \in SessionIds : sessionId' = id
        /\ calls' = Append(calls, Call("createSession", NullSession, 0, NoScores, TRUE))
        /\ Continue("baseline")
     \/ /\ calls' = Append(calls, Call("createSession", NullSession, 0, NoScores, FALSE))
        /\ Throw("createSession failed")
        /\ UNCHANGED sessionId
  /\ UNCHANGED <<optInputs, optLocals, progress, outcome>>

\* Lines 400-417: the baseline scoring of the unmodified input.
Baseline ==
  /\ opc = "baseline"
  /\ Report(Percent(10))
  /\ \/ /\ Throw("onProgress failed")
        /\ UNCHANGED <<calls, lastScores, history>>
     \/ /\ calls' = Append(calls, Call("score", sessionId, currentText, NoScores, FALSE))
        /\ Throw("score failed")
        /\ UNCHANGED <<lastScores, history>>
     \/ /\ \E scores \in ScoreChoices :
             /\ calls' = Append(calls, Call("score", sessionId, currentText, scores, TRUE))
             /\ lastScores' = scores
             /\ history' = Append(history, HistoryEntry(0, scores))
        /\ Continue(mode)
  /\ UNCHANGED <<optInputs, currentText, iteration, iterationsUsed,
                 reachedThresholds, sessionId, outcome>>

\* Mutant: the threshold check on the baseline is left out.
ScoreOnlyWithoutThresholdCheck ==
  /\ opc = "score_only"
  /\ Report(Percent(100))
  /\ \/ /\ Throw("onProgress failed")
        /\ UNCHANGED reachedThresholds
     \/ /\ UNCHANGED reachedThresholds
        /\ ReturnResult(GrammarlyOptimizeResult(currentText, lastScores, 0,
             reachedThresholds, history, "score-only: not met"))
  /\ UNCHANGED <<optInputs, currentText, lastScores, iteration, iterationsUsed,
                 history, sessionId, calls, outcome>>

\* Lines 419-441.
ScoreOnly ==
  /\ opc = "score_only"
  /\ Report(Percent(100))
  /\ \/ /\ Throw("onProgress failed")
        /\ UNCHANGED reachedThresholds
     \/ LET met == ThresholdsMet(lastScores, maxAiPercent, maxPlagiarismPercent) IN
        /\ reachedThresholds' = met
        /\ ReturnResult(GrammarlyOptimizeResult(currentText, lastScores, 0, met,
             history, IF met THEN "score-only: met" ELSE "score-only: not met"))
  /\ UNCHANGED <<optInputs, currentText, lastScores, iteration, iterationsUsed,
                 history, sessionId, calls, outcome>>

\* Mutant: the notes are a fixed text, not what the analysis returned.
AnalyzeDroppingNarrative ==
  /\ opc = "analyze"
  /\ \/ /\ Report(Percent(50))
        /\ Throw("onProgress failed")
        /\ UNCHANGED <<calls, reachedThresholds>>
     \/ /\ Report(Percent(50))
        /\ calls' = Append(calls, Call("analyze", NullSession, currentText, lastScores, FALSE))
        /\ Throw("analysis failed")
        /\ UNCHANGED reachedThresholds
     \/ /\ progress' = progress \o << Percent(50), Percent(100) >>
        /\ \E analysis \in AnalysisChoices :
             calls' = Append(calls, CallWithOutput("analyze", NullSession,
                                      currentText, lastScores, TRUE, analysis))
        /\ reachedThresholds' =
             ThresholdsMet(lastScores, maxAiPercent, maxPlagiarismPercent)
        /\ \/ Throw("onProgress failed")
           \/ ReturnResult(GrammarlyOptimizeResult(currentText, lastScores, 0,
                reachedThresholds', history, "analysis"))
  /\ UNCHANGED <<optInputs, currentText, lastScores, iteration, iterationsUsed,
                 history, sessionId, outcome>>

\* Lines 443-474.
Analyze ==
  /\ opc = "analyze"
  /\ \/ /\ Report(Percent(50))
        /\ Throw("onProgress failed")
        /\ UNCHANGED <<calls, reachedThresholds>>
     \/ /\ Report(Percent(50))
        /\ calls' = Append(calls, Call("analyze", NullSession, currentText, lastScores, FALSE))
        /\ Throw("analysis failed")
        /\ UNCHANGED reachedThresholds
     \/ /\ progress' = progress \o << Percent(50), Percent(100) >>
        /\ reachedThresholds' =
             ThresholdsMet(lastScores, maxAiPercent, maxPlagiarismPercent)
        /\ \E analysis \in AnalysisChoices :
             /\ calls' = Append(calls, CallWithOutput("analyze", NullSession,
                                         currentText, lastScores, TRUE, analysis))
             /\ \/ Throw("onProgress failed")
                \/ ReturnResult(GrammarlyOptimizeResult(currentText, lastScores, 0,
                     reachedThresholds', history, analysis))
  /\ UNCHANGED <<optInputs, currentText, lastScores, iteration, iterationsUsed,
                 history, sessionId, outcome>>

\* Mutant: a baseline that meets the thresholds skips the loop.
StartOptimizeCheckingBaseline ==
  /\ opc = "optimize"
  /\ Report(Percent(15))
  /\ \/ /\ Throw("onProgress failed")
        /\ UNCHANGED <<iteration, reachedThresholds>>
     \/ /\ reachedThresholds' =
             ThresholdsMet(lastScores, maxAiPercent, maxPlagiarismPercent)
        /\ iteration' = 1
        /\ Continue(IF 1 <= maxIterations /\ ~reachedThresholds'
                      THEN "rewrite" ELSE "summarize")
  /\ UNCHANGED <<optInputs, currentText, lastScores, iterationsUsed,
                 history, sessionId, calls, outcome>>

\* Lines 476-484: entering the loop.
StartOptimize ==
  /\ opc = "optimize"
  /\ Report(Percent(15))
  /\ \/ /\ Throw("onProgress failed")
        /\ UNCHANGED iteration
     \/ /\ iteration' = 1
        /\ Continue(IF 1 <= maxIterations THEN "rewrite" ELSE "summarize")
  /\ UNCHANGED <<optInputs, currentText, lastScores, iterationsUsed,
                 reachedThresholds, history, sessionId, calls, outcome>>

\* Mutant: every rewrite starts from the original text (text 0) again.
RewriteFromOriginal ==
  /\ opc = "rewrite"
  /\ iterationsUsed' = iteration
  /\ Report(IterationProgress(iteration))
  /\ \/ /\ Throw("onProgress failed")
        /\ UNCHANGED <<calls, currentText>>
     \/ /\ calls' = Append(calls, Call("rewrite", NullSession, 0, lastScores, FALSE))
        /\ Throw("rewrite failed")
        /\ UNCHANGED currentText
     \/ /\ calls' = Append(calls, CallWithOutput("rewrite", NullSession, 0,
                                               lastScores, TRUE, iteration))
        /\ currentText' = iteration
        /\ Continue("rescore")
  /\ UNCHANGED <<optInputs, lastScores, iteration, reachedThresholds, history,
                 sessionId, outcome>>

\* Lines 485-506: the rewrite of the current text.
Rewrite ==
  /\ opc = "rewrite"
  /\ iterationsUsed' = iteration
  /\ Report(IterationProgress(iteration))
  /\ \/ /\ Throw("onProgress failed")
        /\ UNCHANGED <<calls, currentText>>
     \/ /\ calls' = Append(calls, Call("rewrite", NullSession, currentText, lastScores, FALSE))
        /\ Throw("rewrite failed")
        /\ UNCHANGED currentText
     \/ /\ calls' = Append(calls, CallWithOutput("rewrite", NullSession, currentText,
                                               lastScores, TRUE, iteration))
        /\ currentText' = iteration          \* rewriteResult.rewrittenText
        /\ Continue("rescore")
  /\ UNCHANGED <<optInputs, lastScores, iteration, reachedThresholds, history,
                 sessionId, outcome>>

\* Mutant: the loop does not break when the thresholds are reached.
RescoreWithoutBreak ==
  /\ opc = "rescore"
  /\ Report(ScoringProgress(iteration))
  /\ \/ /\ Throw("onProgress failed")
        /\ UNCHANGED <<calls, lastScores, reachedThresholds, history, iteration>>
     \/ /\ calls' = Append(calls, Call("score", sessionId, currentText, NoScores, FALSE))
        /\ Throw("score failed")
        /\ UNCHANGED <<lastScores, reachedThresholds, history, iteration>>
     \/ /\ \E scores \in ScoreChoices :
             /\ calls' = Append(calls, Call("score", sessionId, currentText, scores, TRUE))
             /\ lastScores' = scores
             /\ reachedThresholds' =
                  ThresholdsMet(scores, maxAiPercent, maxPlagiarismPercent)
             /\ history' = Append(history, HistoryEntry(iteration, scores))
        /\ iteration' = iteration + 1
        /\ Continue(IF iteration + 1 <= maxIterations THEN "rewrite" ELSE "summarize")
  /\ UNCHANGED <<optInputs, currentText, iterationsUsed, sessionId, outcome>>

\* Mutant: every re-scoring runs in a session of its own.
RescoreInOwnSession ==
  /\ opc = "rescore"
  /\ Report(ScoringProgress(iteration))
  /\ \/ /\ Throw("onProgress failed")
        /\ UNCHANGED <<calls, lastScores, reachedThresholds, history, iteration>>
     \/ /\ calls' = Append(calls, Call("score", "session-" \o ToString(iteration + 2), currentText, NoScores, FALSE))
        /\ Throw("score failed")
        /\ UNCHANGED <<lastScores, reachedThresholds, history, iteration>>
     \/ /\ \E scores \in ScoreChoices :
             /\ calls' = Append(calls, Call("score", "session-" \o ToString(iteration + 2), currentText, scores, TRUE))
             /\ lastScores' = scores
             /\ reachedThresholds' =
                  ThresholdsMet(scores, maxAiPercent, maxPlagiarismPercent)
             /\ history' = Append(history, HistoryEntry(iteration, scores))
        /\ IF reachedThresholds'
             THEN /\ Continue("summarize")                      \* break
                  /\ UNCHANGED iteration
             ELSE /\ iteration' = iteration + 1
                  /\ Continue(IF iteration + 1 <= maxIterations
                                THEN "rewrite" ELSE "summarize")
  /\ UNCHANGED <<optInputs, currentText, iterationsUsed, sessionId, outcome>>

\* Lines 508-546: re-scoring, the threshold check and the loop's exit test.
Rescore ==
  /\ opc = "rescore"
  /\ Report(ScoringProgress(iteration))
  /\ \/ /\ Throw("onProgress failed")
        /\ UNCHANGED <<calls, lastScores, reachedThresholds, history, iteration>>
     \/ /\ calls' = Append(calls, Call("score", sessionId, currentText, NoScores, FALSE))
        /\ Throw("score failed")
        /\ UNCHANGED <<lastScores, reachedThresholds, history, iteration>>
     \/ /\ \E scores \in ScoreChoices :
             /\ calls' = Append(calls, Call("score", sessionId, currentText, scores, TRUE))
             /\ lastScores' = scores
             /\ reachedThresholds' =
                  ThresholdsMet(scores, maxAiPercent, maxPlagiarismPercent)
             /\ history' = Append(history, HistoryEntry(iteration, scores))
        /\ IF reachedThresholds'
             THEN /\ Continue("summarize")                      \* break
                  /\ UNCHANGED iteration
             ELSE /\ iteration' = iteration + 1
                  /\ Continue(IF iteration + 1 <= maxIterations
                                THEN "rewrite" ELSE "summarize")
  /\ UNCHANGED <<optInputs, currentText, iterationsUsed, sessionId, outcome>>

\* What summarizeOptimizationWithClaude is handed (lines 552-560).
SummarizeRequest ==
  [iterationsUsed |-> iterationsUsed, thresholdsMet |-> reachedThresholds,
   history |-> history, finalText |-> currentText]

SummarizeCall(ok) ==
  [Call("summarize", NullSession, currentText, lastScores, ok)
     EXCEPT !.task = SummarizeRequest]

\* Lines 548-573: the summary and the result of optimize mode.
Summarize ==
  /\ opc = "summarize"
  /\ \/ /\ Report(Percent(92))
        /\ Throw("onProgress failed")
        /\ UNCHANGED calls
     \/ /\ Report(Percent(92))
        /\ calls' = Append(calls, SummarizeCall(FALSE))
        /\ Throw("summarize failed")
     \/ /\ progress' = progress \o << Percent(92), Percent(100) >>
        /\ calls' = Append(calls, SummarizeCall(TRUE))
        /\ \/ Throw("onProgress failed")
           \/ ReturnResult(GrammarlyOptimizeResult(currentText, lastScores,
                iterationsUsed, reachedThresholds, history, "summary"))
  /\ UNCHANGED <<optInputs, optLocals, sessionId, outcome>>

\* Mutant: the session is closed after a result only, not after an error.
FinallyOnlyAfterResult ==
  /\ opc = "finally"
  /\ \/ /\ Truthy(sessionId) /\ completion.kind = "result"
        /\ calls' = Append(calls, Call("deleteSession", sessionId, 0, NoScores, TRUE))
     \/ /\ Truthy(sessionId) /\ completion.kind = "result"
        /\ calls' = Append(calls, Call("deleteSession", sessionId, 0, NoScores, FALSE))
     \/ /\ ~(Truthy(sessionId) /\ completion.kind = "result")
        /\ UNCHANGED calls
  /\ outcome' = completion
  /\ opc' = "done"
  /\ UNCHANGED <<optInputs, optLocals, sessionId, progress, completion>>

\* Mutant: a teardown failure is thrown to the caller.
FinallyPropagatesTeardownError ==
  /\ opc = "finally"
  /\ \/ /\ Truthy(sessionId)
        /\ calls' = Append(calls, Call("deleteSession", sessionId, 0, NoScores, TRUE))
        /\ outcome' = completion
     \/ /\ Truthy(sessionId)
        /\ calls' = Append(calls, Call("deleteSession", sessionId, 0, NoScores, FALSE))
        /\ outcome' = Thrown("deleteSession failed")
     \/ /\ ~Truthy(sessionId)
        /\ UNCHANGED calls
        /\ outcome' = completion
  /\ opc' = "done"
  /\ UNCHANGED <<optInputs, optLocals, sessionId, progress, completion>>

\* Lines 574-588: the finally block; a teardown failure is logged and dropped.
Finally ==
  /\ opc = "finally"
  /\ \/ /\ Truthy(sessionId)
        /\ calls' = Append(calls, Call("deleteSession", sessionId, 0, NoScores, TRUE))
     \/ /\ Truthy(sessionId)
        /\ calls' = Append(calls, Call("deleteSession", sessionId, 0, NoScores, FALSE))
     \/ /\ ~Truthy(sessionId)
        /\ UNCHANGED calls
  /\ outcome' = completion
  /\ opc' = "done"
  /\ UNCHANGED <<optInputs, optLocals, sessionId, progress, completion>>

\* runGrammarlyOptimization when another program is the one running.
OptIdle ==
  /\ opc = "idle"
  /\ mode = "optimize"
  /\ maxIterations = 1
  /\ maxAiPercent = 10
  /\ maxPlagiarismPercent = 5
  /\ currentText = 0
  /\ lastScores = NoScores
  /\ iteration = 0
  /\ iterationsUsed = 0
  /\ reachedThresholds = FALSE
  /\ history = << >>
  /\ sessionId = NullSession
  /\ calls = << >>
  /\ progress = << >>
  /\ completion = NoCompletion
  /\ outcome = NoCompletion

\* ------------------------------------------------------------------------
\* The 1Password provider (timeout.ts, lines 130-217)
\* ------------------------------------------------------------------------
\* config.opServiceAccountToken: undefined, the empty string, or a token
TokenChoices == {Undefined, "", "ops_test_token"}

\* Mutant: any defined token counts, the empty string included.
IsOnePasswordConfiguredWhenDefined(config) ==
  config.opServiceAccountToken # Undefined

\* isOnePasswordConfigured: !!config.opServiceAccountToken
IsOnePasswordConfigured(config) ==
  config.opServiceAccountToken # Undefined /\ config.opServiceAccountToken # ""

\* What client.secrets.resolve may do for one field.
ResolveChoices == {"rejects", "", "value"}

CredentialsOk(creds) == [ok |-> TRUE, error |-> Undefined, credentials |-> creds]
CredentialsError(msg) == [ok |-> FALSE, error |-> msg, credentials |-> Undefined]

\* Mutant: empty fields are not rejected.
GetGrammarlyCredentialsWithoutEmptyCheck(clientOk, username, password) ==
  IF ~clientOk
    THEN CredentialsError("1Password SDK initialization failed")
  ELSE IF username = "rejects" \/ password = "rejects"
    THEN CredentialsError("Failed to resolve 1Password secrets")
  ELSE CredentialsOk([username |-> username, password |-> password])

\* getGrammarlyCredentials: clientOk is whether createOnePasswordClient resolved,
\* username and password are what the two secrets.resolve calls did.
GetGrammarlyCredentials(clientOk, username, password) ==
  IF ~clientOk
    THEN CredentialsError("1Password SDK initialization failed")
  ELSE IF username = "rejects" \/ password = "rejects"
    THEN CredentialsError("Failed to resolve 1Password secrets")
  ELSE IF username = "" \/ password = ""
    THEN CredentialsError("Failed to resolve 1Password secrets")
  ELSE CredentialsOk([username |-> username, password |-> password])

\* ------------------------------------------------------------------------
\* checkGrammarlyAuthStatus and runStagehandGrammarlyTask.  Their source file
\* (src/browser/stagehand/grammarlyTask.ts) is not available; they are modelled
\* from sections 4.1 and 4.4 of the specification and from
\* tests/unit/browser/stagehand/grammarlyTask.test.ts.
\* ------------------------------------------------------------------------
MAX_TEXT_LENGTH == 8000

UrlChoices == {"signin", "login", "signup", "app", "other"}
LoginFamily(url) == url \in {"signin", "login", "signup"}

\* What one stagehand.observe call did: it threw, or returned n elements of
\* which the first may be undefined.
ObserveChoices ==
  { [threw |-> TRUE, count |-> 0, first |-> FALSE],
    [threw |-> FALSE, count |-> 0, first |-> FALSE],
    [threw |-> FALSE, count |-> 1, first |-> FALSE],
    [threw |-> FALSE, count |-> 1, first |-> TRUE] }

\* Mutant: a failing observation propagates as a positive verdict (fail open).
CheckGrammarlyAuthStatusFailingOpen(url, obs) ==
  IF url \in {"signin", "login", "signup"}
    THEN [loggedIn |-> FALSE, currentUrl |-> url, observed |-> FALSE]
  ELSE IF obs.threw
    THEN [loggedIn |-> TRUE, currentUrl |-> url, observed |-> TRUE]
  ELSE [loggedIn |-> obs.count > 0, currentUrl |-> url, observed |-> TRUE]

\* Mutant: the signup page is not taken for a login page and is observed.
CheckGrammarlyAuthStatusObservingSignup(url, obs) ==
  IF url \in {"signin", "login"}
    THEN [loggedIn |-> FALSE, currentUrl |-> url, observed |-> FALSE]
  ELSE IF obs.threw
    THEN [loggedIn |-> FALSE, currentUrl |-> url, observed |-> TRUE]
  ELSE [loggedIn |-> obs.count > 0, currentUrl |-> url, observed |-> TRUE]

\* checkGrammarlyAuthStatus with a page: [loggedIn, currentUrl, observed]
CheckGrammarlyAuthStatus(url, obs) ==
  IF LoginFamily(url)
    THEN [loggedIn |-> FALSE, currentUrl |-> url, observed |-> FALSE]
  ELSE IF obs.threw
    THEN [loggedIn |-> FALSE, currentUrl |-> url, observed |-> TRUE]
  ELSE [loggedIn |-> obs.count > 0, currentUrl |-> url, observed |-> TRUE]

\* A text is a sequence of runs, each a character repeated count times.
Run(char, count) == [char |-> char, count |-> count]

RECURSIVE TextLength(_)
TextLength(text) ==
  IF text = << >> THEN 0 ELSE Head(text).count + TextLength(Tail(text))

\* text.slice(0, n)
RECURSIVE Slice(_, _)
Slice(text, n) ==
  IF text = << >> \/ n <= 0 THEN << >>
  ELSE IF Head(text).count <= n
    THEN << Head(text) >> \o Slice(Tail(text), n - Head(text).count)
  ELSE << Run(Head(text).char, n) >>

TextChoices ==
  { << Run("a", 15) >>,
    << Run("a", 8000) >>,
    << Run("a", 8000), Run("b", 1) >>,
    << Run("a", 7999), Run("b", 2) >>,
    << Run("a", 10000) >> }

\* Mutant: the text is cut one character short.
TruncateOffByOne(text) == Slice(text, MAX_TEXT_LENGTH - 1)

\* The text that is injected: at most MAX_TEXT_LENGTH characters.
Truncate(text) == Slice(text, MAX_TEXT_LENGTH)

AppConfigChoices ==
  { [present |-> FALSE, opServiceAccountToken |-> Undefined] }
  \cup { [present |-> TRUE, opServiceAccountToken |-> t] : t \in TokenChoices }

DebugUrlChoices == {Undefined, "https://debug.browserbase.com/session/123"}

\* appConfig && isOnePasswordConfigured(appConfig)
AutoLoginConfigured(appConfig) ==
  appConfig.present /\ IsOnePasswordConfigured(appConfig)

\* The results attemptGrammarlyLogin may hand to the task runner.
LoginResultChoices ==
  { LoginAttemptResult(TRUE, Undefined, FALSE, FALSE, FALSE),
    LoginAttemptResult(FALSE, "Invalid credentials", TRUE, FALSE, FALSE),
    LoginAttemptResult(FALSE, "CAPTCHA challenge detected", FALSE, TRUE, FALSE),
    LoginAttemptResult(FALSE, "Rate limit triggered", FALSE, FALSE, TRUE),
    LoginAttemptResult(FALSE, "Login failed after all retry attempts",
                       FALSE, FALSE, FALSE) }

ExtractChoices ==
  { [aiDetectionPercent |-> 15, plagiarismPercent |-> 3, notes |-> "extracted"],
    [aiDetectionPercent |-> NULL, plagiarismPercent |-> NULL, notes |-> "extracted"] }

\* GrammarlyAuthError: the message is a sequence of parts.
GrammarlyAuthError(message, debugUrl) ==
  [kind |-> "error", name |-> "GrammarlyAuthError", message |-> message,
   debugUrl |-> debugUrl]
PlainError(message) ==
  [kind |-> "error", name |-> "Error", message |-> << message >>,
   debugUrl |-> Undefined]
TaskScores(scores) == [kind |-> "scores", scores |-> scores]
NoOutcome == [kind |-> "none"]

LoginRequiredMessage(debugUrl) ==
  IF debugUrl = Undefined
    THEN << "Grammarly login required", "BROWSERBASE_CONTEXT_ID" >>
    ELSE << "Grammarly login required", debugUrl >>

FetchFailedMessage(error) == << "1Password error", error >>

LoginFailedMessage(result) ==
  IF result.invalidCredentials THEN << "auto-login failed", "invalid credentials", result.error >>
  ELSE IF result.captchaDetected THEN << "auto-login failed", "CAPTCHA detected", result.error >>
  ELSE IF result.rateLimited THEN << "auto-login failed", "Too many attempts", result.error >>
  ELSE << "auto-login failed", result.error >>

TaskCall(op, arg, result) == [op |-> op, arg |-> arg, result |-> result]

TaskInit ==
  /\ tpc = "start"
  /\ taskInput \in
       { [hasPage |-> h, appConfig |-> c, debugUrl |-> d, text |-> t] :
           h \in BOOLEAN, c \in AppConfigChoices, d \in DebugUrlChoices,
           t \in TextChoices }
  /\ taskCalls = << >>
  /\ extractError = Undefined
  /\ taskOutcome = NoOutcome

TaskThrow(error) ==
  /\ taskOutcome' = error
  /\ tpc' = "done"

TaskGoto(next) ==
  /\ tpc' = next
  /\ UNCHANGED taskOutcome

\* No page: NoPageError, before anything else.
TaskStart ==
  /\ tpc = "start"
  /\ IF taskInput.hasPage
       THEN TaskGoto("navigate")
       ELSE TaskThrow(PlainError("No page available in Stagehand context"))
  /\ UNCHANGED <<taskInput, taskCalls, extractError>>

\* Navigate to the application unless the page is already within its domain; a
\* network-idle timeout is logged and the flow goes on.
TaskNavigate ==
  /\ tpc = "navigate"
  /\ \/ /\ UNCHANGED taskCalls                      \* already on Grammarly
        /\ TaskGoto("authCheck")
     \/ /\ \E idle \in {"idle", "timeout"} :
             taskCalls' = Append(taskCalls, TaskCall("goto", "app", idle))
        /\ TaskGoto("authCheck")
  /\ UNCHANGED <<taskInput, extractError>>

\* The calls of one checkGrammarlyAuthStatus: the observation of the
\* logged-in indicators, when it is made, and the probe with the URL it read
\* and its verdict.
AuthIndicatorsQuery == "authIndicators"
AuthCheckCalls(url, obs) ==
  LET status == CheckGrammarlyAuthStatus(url, obs) IN
  (IF status.observed
     THEN << TaskCall("observe", AuthIndicatorsQuery, obs) >>
     ELSE << >>)
  \o << TaskCall("probe", status.currentUrl, status.loggedIn) >>

\* Mutant: the verdict of the probe is ignored and auto-login always starts.
TaskAuthCheckIgnoringVerdict ==
  /\ tpc = "authCheck"
  /\ \E url \in UrlChoices, obs \in ObserveChoices :
       LET status == CheckGrammarlyAuthStatus(url, obs) IN
       /\ taskCalls' = taskCalls \o AuthCheckCalls(url, obs)
       /\ TaskGoto("notAuthenticated")
  /\ UNCHANGED <<taskInput, extractError>>

\* The authentication check that precedes the scoring flow.
TaskAuthCheck ==
  /\ tpc = "authCheck"
  /\ \E url \in UrlChoices, obs \in ObserveChoices :
       LET status == CheckGrammarlyAuthStatus(url, obs) IN
       /\ taskCalls' = taskCalls \o AuthCheckCalls(url, obs)
       /\ TaskGoto(IF status.loggedIn THEN "newDocument" ELSE "notAuthenticated")
  /\ UNCHANGED <<taskInput, extractError>>

\* Mutant: without a credential integration the scoring flow goes on
\* unauthenticated.
TaskNotAuthenticatedProceeding ==
  /\ tpc = "notAuthenticated"
  /\ TaskGoto(IF AutoLoginConfigured(taskInput.appConfig)
                THEN "fetchCredentials" ELSE "newDocument")
  /\ UNCHANGED <<taskInput, taskCalls, extractError>>

\* Not authenticated: without a configured credential integration the run fails
\* at once with the authentication error.
TaskNotAuthenticated ==
  /\ tpc = "notAuthenticated"
  /\ IF AutoLoginConfigured(taskInput.appConfig)
       THEN TaskGoto("fetchCredentials")
       ELSE TaskThrow(GrammarlyAuthError(LoginRequiredMessage(taskInput.debugUrl),
                                         taskInput.debugUrl))
  /\ UNCHANGED <<taskInput, taskCalls, extractError>>

\* The credential fetch; a failure is wrapped into the authentication error.
TaskFetchCredentials ==
  /\ tpc = "fetchCredentials"
  /\ \E clientOk \in BOOLEAN, u \in ResolveChoices, p \in ResolveChoices :
       LET fetched == GetGrammarlyCredentials(clientOk, u, p) IN
       /\ taskCalls' = Append(taskCalls,
            TaskCall("getGrammarlyCredentials",
                     [clientOk |-> clientOk, username |-> u, password |-> p],
                     fetched.ok))
       /\ IF fetched.ok
            THEN TaskGoto("login")
            ELSE TaskThrow(GrammarlyAuthError(FetchFailedMessage(fetched.error),
                                              taskInput.debugUrl))
  /\ UNCHANGED <<taskInput, extractError>>

\* Mutant: a failed login with no classified reason is taken for a success.
TaskLoginTrustingUnclassified ==
  /\ tpc = "login"
  /\ \E result \in LoginResultChoices :
       /\ taskCalls' = Append(taskCalls,
            TaskCall("attemptGrammarlyLogin", "credentials", result))
       /\ IF result.success
             \/ ~(result.invalidCredentials \/ result.captchaDetected \/ result.rateLimited)
            THEN TaskGoto("newDocument")
            ELSE TaskThrow(GrammarlyAuthError(LoginFailedMessage(result),
                                              taskInput.debugUrl))
  /\ UNCHANGED <<taskInput, extractError>>

\* The login attempt; a failed result becomes the authentication error, a
\* successful one is trusted and the scoring flow goes on.
TaskLogin ==
  /\ tpc = "login"
  /\ \E result \in LoginResultChoices :
       /\ taskCalls' = Append(taskCalls,
            TaskCall("attemptGrammarlyLogin", "credentials", result))
       /\ IF result.success
            THEN TaskGoto("newDocument")
            ELSE TaskThrow(GrammarlyAuthError(LoginFailedMessage(result),
                                              taskInput.debugUrl))
  /\ UNCHANGED <<taskInput, extractError>>

NewDocumentFallback == "Click on 'New' to create a new document"
DetectionFallback == "Open the AI detection panel"

\* Mutant: a non-empty observation is acted on even when its first element
\* is undefined.
ObserveThenActOnUndefined(query, obs, fallback) ==
  << TaskCall("observe", query, obs),
     TaskCall("act", IF obs.count > 0 THEN "element:" \o query
                     ELSE fallback, TRUE) >>

\* observe-then-act: the observed element when there is one, else the fixed
\* instruction.
ObserveThenAct(query, obs, fallback) ==
  << TaskCall("observe", query, obs),
     TaskCall("act", IF obs.count > 0 /\ obs.first THEN "element:" \o query
                     ELSE fallback, TRUE) >>

\* Create a new document.
TaskNewDocument ==
  /\ tpc = "newDocument"
  /\ \E obs \in { o \in ObserveChoices : ~o.threw } :
       taskCalls' = taskCalls \o ObserveThenAct("new document", obs, NewDocumentFallback)
  /\ TaskGoto("fillText")
  /\ UNCHANGED <<taskInput, extractError>>

\* Inject the (truncated) text by a direct fill of the content-editable region.
TaskFillText ==
  /\ tpc = "fillText"
  /\ taskCalls' = Append(taskCalls,
       TaskCall("fill", "[contenteditable=true]", Truncate(taskInput.text)))
  /\ TaskGoto("openDetection")
  /\ UNCHANGED <<taskInput, extractError>>

\* Open the AI detection panel.
TaskOpenDetection ==
  /\ tpc = "openDetection"
  /\ \E obs \in { o \in ObserveChoices : ~o.threw } :
       taskCalls' = taskCalls \o ObserveThenAct("AI detection", obs, DetectionFallback)
  /\ TaskGoto("extract")
  /\ UNCHANGED <<taskInput, extractError>>

\* The primary structured extraction.
TaskExtract ==
  /\ tpc = "extract"
  /\ \/ /\ \E scores \in ExtractChoices :
             /\ taskCalls' = Append(taskCalls, TaskCall("extract", "primary", TRUE))
             /\ taskOutcome' = TaskScores(scores)
        /\ tpc' = "done"
        /\ UNCHANGED extractError
     \/ /\ taskCalls' = Append(taskCalls, TaskCall("extract", "primary", FALSE))
        /\ extractError' = "Primary extraction failed"
        /\ TaskGoto("fallbackExtract")
  /\ UNCHANGED taskInput

\* Mutant: when the fallback fails too, the fallback's error is thrown.
TaskFallbackExtractThrowingOwnError ==
  /\ tpc = "fallbackExtract"
  /\ \/ /\ \E scores \in ExtractChoices :
             /\ taskCalls' = Append(taskCalls, TaskCall("extract", "fallback", TRUE))
             /\ taskOutcome' = TaskScores([scores EXCEPT !.notes = "partial extraction"])
        /\ tpc' = "done"
     \/ /\ taskCalls' = Append(taskCalls, TaskCall("extract", "fallback", FALSE))
        /\ TaskThrow(PlainError("Fallback also failed"))
  /\ UNCHANGED <<taskInput, extractError>>

\* The single fallback extraction; if it fails too, the original error is thrown.
TaskFallbackExtract ==
  /\ tpc = "fallbackExtract"
  /\ \/ /\ \E scores \in ExtractChoices :
             /\ taskCalls' = Append(taskCalls, TaskCall("extract", "fallback", TRUE))
             /\ taskOutcome' = TaskScores([scores EXCEPT !.notes = "partial extraction"])
        /\ tpc' = "done"
     \/ /\ taskCalls' = Append(taskCalls, TaskCall("extract", "fallback", FALSE))
        /\ TaskThrow(PlainError(extractError))
  /\ UNCHANGED <<taskInput, extractError>>

\* The task runner when another program is the one running.
TaskIdle ==
  /\ tpc = "idle"
  /\ taskInput = [hasPage |-> TRUE,
                  appConfig |-> [present |-> FALSE, opServiceAccountToken |-> Undefined],
                  debugUrl |-> Undefined, text |-> << Run("a", 15) >>]
  /\ taskCalls = << >>
  /\ extractError = Undefined
  /\ taskOutcome = NoOutcome

\* ------------------------------------------------------------------------
\* A request to Claude: the model tier is chosen by chooseClaudeModel
\* (src/llm/claudeClient.ts, not available; modelled from section 5 of the
\* specification and tests/unit/llm/claudeClient.test.ts) and the call runs
\* under withTimeout (src/utils/timeout.ts:33-55).
\* ------------------------------------------------------------------------
\* Mutant: a text of exactly 12000 characters already selects the higher tier.
ChooseClaudeModelAtBoundary(textLength, iterations) ==
  IF textLength >= 12000 \/ iterations > 8 THEN "opus" ELSE "sonnet"

ChooseClaudeModel(textLength, iterations) ==
  IF textLength > 12000 \/ iterations > 8 THEN "opus" ELSE "sonnet"

TextLengthChoices == {1, 5000, 8000, 12000, 12001, 15000, 20000, 50000}
IterationChoices == {1, 3, 5, 8, 9, 10, 15, 20}

\* What fn does: it throws before returning a promise, returns a promise
\* that is already settled, returns one that settles later, or one that never
\* settles.
FnChoices ==
  {"throws", "resolved", "rejected", "resolvesLater", "rejectsLater", "never"}
OnTimeoutChoices == {Undefined, "returns", "throws"}
TimeoutMsChoices == {0, 30000}

Pending == [kind |-> "pending"]
Fulfilled(value) == [kind |-> "fulfilled", value |-> value]
Rejected(error) == [kind |-> "rejected", error |-> error]
TimeoutError(ms) ==
  [name |-> "TimeoutError", message |-> << "Operation timed out after ", ms, "ms" >>]
FnError == [name |-> "Error", message |-> << "fn failed" >>]
OnTimeoutError == [name |-> "Error", message |-> << "onTimeout failed" >>]
FnValue == "value"

\* The promise fn() returns, as it is when Promise.race receives it.
FnReturns(behaviour) ==
  CASE behaviour = "resolved" -> Fulfilled(FnValue)
    [] behaviour = "rejected" -> Rejected(FnError)
    [] OTHER -> Pending

\* How a pending promise of fn settles.
FnSettlesAs(behaviour) ==
  IF behaviour = "resolvesLater" THEN Fulfilled(FnValue) ELSE Rejected(FnError)

\* The continuation of the await is queued: microtasks run before any timer.
MicrotaskPending == wpc = "await" /\ race # Pending

ClaudeInit ==
  /\ wpc = "start"
  /\ request \in [textLength : TextLengthChoices, iterations : IterationChoices]
  /\ modelTier = Undefined
  /\ fn \in FnChoices
  /\ timeoutMs \in TimeoutMsChoices
  /\ onTimeout \in OnTimeoutChoices
  /\ fnPromise = Pending
  /\ timeoutId = Undefined
  /\ race = Pending
  /\ events = << >>
  /\ uncaught = << >>
  /\ settlement = Pending

ChooseModel ==
  /\ wpc = "start"
  /\ modelTier' = ChooseClaudeModel(request.textLength, request.iterations)
  /\ wpc' = "withTimeout"
  /\ UNCHANGED <<request, fn, timeoutMs, onTimeout, fnPromise, timeoutId, race,
                 events, uncaught, settlement>>

\* Lines 38-49 up to the await: fn() is called, then the timer is created and
\* both promises are handed to Promise.race.  When fn() throws the array is
\* never built, no timer exists, and the finally block has nothing to clear.
WithTimeout ==
  /\ wpc = "withTimeout"
  /\ IF fn = "throws"
       THEN /\ settlement' = Rejected(FnError)
            /\ wpc' = "done"
            /\ UNCHANGED <<fnPromise, timeoutId, race, events>>
       ELSE /\ fnPromise' = FnReturns(fn)
            /\ timeoutId' = "pending"
            /\ race' = FnReturns(fn)
            /\ events' = IF FnReturns(fn) = Pending THEN events
                                                   ELSE Append(events, "fnSettled")
            /\ wpc' = "await"
            /\ UNCHANGED settlement
  /\ UNCHANGED <<request, modelTier, fn, timeoutMs, onTimeout, uncaught>>

\* fn's promise settles; the race takes the first settlement only.  This may
\* happen after withTimeout has settled: the operation is not cancelled.
FnSettles ==
  /\ wpc \in {"await", "done"}
  /\ fn \in {"resolvesLater", "rejectsLater"}
  /\ fnPromise = Pending
  /\ ~MicrotaskPending
  /\ fnPromise' = FnSettlesAs(fn)
  /\ race' = IF race = Pending THEN FnSettlesAs(fn) ELSE race
  /\ events' = Append(events, "fnSettled")
  /\ UNCHANGED <<wpc, request, modelTier, fn, timeoutMs, onTimeout, timeoutId,
                 uncaught, settlement>>

\* Lines 43-46, the timer callback: onTimeout?.() and then reject(...).  An
\* exception of onTimeout leaves the callback before reject is reached.
TimerFires ==
  /\ timeoutId = "pending"
  /\ ~MicrotaskPending
  /\ timeoutId' = "fired"
  /\ events' = Append(events, "timerFired")
  /\ IF onTimeout = "throws"
       THEN /\ uncaught' = Append(uncaught, OnTimeoutError)
            /\ UNCHANGED race
       ELSE /\ race' = IF race = Pending THEN Rejected(TimeoutError(timeoutMs))
                                          ELSE race
            /\ UNCHANGED uncaught
  /\ UNCHANGED <<wpc, request, modelTier, fn, timeoutMs, onTimeout, fnPromise,
                 settlement>>

\* Lines 40 and 50-54: the await resumes with the settlement of the race and
\* the finally block clears the timer; clearing a timer that fired does nothing.
Resume ==
  /\ wpc = "await"
  /\ race # Pending
  /\ timeoutId' = IF timeoutId = "pending" THEN "cleared" ELSE timeoutId
  /\ settlement' = race
  /\ wpc' = "done"
  /\ UNCHANGED <<request, modelTier, fn, timeoutMs, onTimeout, fnPromise, race,
                 events, uncaught>>

\* The request when another program is the one running.
ClaudeIdle ==
  /\ wpc = "idle"
  /\ request = [textLength |-> 1, iterations |-> 1]
  /\ modelTier = Undefined
  /\ fn = "never"
  /\ timeoutMs = 0
  /\ onTimeout = Undefined
  /\ fnPromise = Pending
  /\ timeoutId = Undefined
  /\ race = Pending
  /\ events = << >>
  /\ uncaught = << >>
  /\ settlement = Pending

\* ------------------------------------------------------------------------
\* Specifications
\* ------------------------------------------------------------------------
LoginNext ==
  \/ LoginStart /\ UNCHANGED <<optVars, taskVars, timeoutVars>>
  \/ LoopTest /\ UNCHANGED <<optVars, taskVars, timeoutVars>>
  \/ Navigate /\ UNCHANGED <<optVars, taskVars, timeoutVars>>
  \/ ObserveEmailButton /\ UNCHANGED <<optVars, taskVars, timeoutVars>>
  \/ ActEmailButton /\ UNCHANGED <<optVars, taskVars, timeoutVars>>
  \/ ObserveEmailField /\ UNCHANGED <<optVars, taskVars, timeoutVars>>
  \/ TryEmailSelector /\ UNCHANGED <<optVars, taskVars, timeoutVars>>
  \/ EmailFallback /\ UNCHANGED <<optVars, taskVars, timeoutVars>>
  \/ SubmitEmail /\ UNCHANGED <<optVars, taskVars, timeoutVars>>
  \/ ObservePassword /\ UNCHANGED <<optVars, taskVars, timeoutVars>>
  \/ PasswordMissing /\ UNCHANGED <<optVars, taskVars, timeoutVars>>
  \/ FillPassword /\ UNCHANGED <<optVars, taskVars, timeoutVars>>
  \/ SubmitLogin /\ UNCHANGED <<optVars, taskVars, timeoutVars>>
  \/ VerifyAuth /\ UNCHANGED <<optVars, taskVars, timeoutVars>>
  \/ ClassifyFailure /\ UNCHANGED <<optVars, taskVars, timeoutVars>>

OptNext ==
  \/ OptStart /\ UNCHANGED <<loginVars, taskVars, timeoutVars>>
  \/ CreateSession /\ UNCHANGED <<loginVars, taskVars, timeoutVars>>
  \/ Baseline /\ UNCHANGED <<loginVars, taskVars, timeoutVars>>
  \/ ScoreOnly /\ UNCHANGED <<loginVars, taskVars, timeoutVars>>
  \/ Analyze /\ UNCHANGED <<loginVars, taskVars, timeoutVars>>
  \/ StartOptimize /\ UNCHANGED <<loginVars, taskVars, timeoutVars>>
  \/ Rewrite /\ UNCHANGED <<loginVars, taskVars, timeoutVars>>
  \/ Rescore /\ UNCHANGED <<loginVars, taskVars, timeoutVars>>
  \/ Summarize /\ UNCHANGED <<loginVars, taskVars, timeoutVars>>
  \/ Finally /\ UNCHANGED <<loginVars, taskVars, timeoutVars>>

TaskNext ==
  \/ TaskStart /\ UNCHANGED <<loginVars, optVars, timeoutVars>>
  \/ TaskNavigate /\ UNCHANGED <<loginVars, optVars, timeoutVars>>
  \/ TaskAuthCheck /\ UNCHANGED <<loginVars, optVars, timeoutVars>>
  \/ TaskNotAuthenticated /\ UNCHANGED <<loginVars, optVars, timeoutVars>>
  \/ TaskFetchCredentials /\ UNCHANGED <<loginVars, optVars, timeoutVars>>
  \/ TaskLogin /\ UNCHANGED <<loginVars, optVars, timeoutVars>>
  \/ TaskNewDocument /\ UNCHANGED <<loginVars, optVars, timeoutVars>>
  \/ TaskFillText /\ UNCHANGED <<loginVars, optVars, timeoutVars>>
  \/ TaskOpenDetection /\ UNCHANGED <<loginVars, optVars, timeoutVars>>
  \/ TaskExtract /\ UNCHANGED <<loginVars, optVars, timeoutVars>>
  \/ TaskFallbackExtract /\ UNCHANGED <<loginVars, optVars, timeoutVars>>

ClaudeNext ==
  \/ ChooseModel /\ UNCHANGED <<loginVars, optVars, taskVars>>
  \/ WithTimeout /\ UNCHANGED <<loginVars, optVars, taskVars>>
  \/ FnSettles /\ UNCHANGED <<loginVars, optVars, taskVars>>
  \/ TimerFires /\ UNCHANGED <<loginVars, optVars, taskVars>>
  \/ Resume /\ UNCHANGED <<loginVars, optVars, taskVars>>

InitLogin == LoginInit /\ OptIdle /\ TaskIdle /\ ClaudeIdle
InitOpt == OptInit /\ LoginIdle /\ TaskIdle /\ ClaudeIdle
InitTask == TaskInit /\ LoginIdle /\ OptIdle /\ ClaudeIdle
InitClaude == ClaudeInit /\ LoginIdle /\ OptIdle /\ TaskIdle

SpecLogin == InitLogin /\ [][LoginNext]_vars
SpecOpt == InitOpt /\ [][OptNext]_vars
SpecTask == InitTask /\ [][TaskNext]_vars
SpecClaude == InitClaude /\ [][ClaudeNext]_vars

\* ------------------------------------------------------------------------
\* Properties of attemptGrammarlyLogin (checked under SpecLogin)
\* ------------------------------------------------------------------------
Range(seq) == { seq[i] : i \in 1..Len(seq) }

\* The probe of the current attempt said "not logged in" and the classifier
\* then set one of the three flags.
ClassifiedAfterProbe ==
  /\ lastProbe = "notLoggedIn"
  /\ \/ lastFailure.invalidCredentials
     \/ lastFailure.captchaDetected
     \/ lastFailure.rateLimited

\* C1 as stated: after a probe that reported "not logged in" and a classified
\* failure, the login has returned success=false with the flag and the probe
\* has been invoked exactly once in total.
C1_ProbeExactlyOnce ==
  ClassifiedAfterProbe =>
    /\ lpc = "done"
    /\ loginResult.returned
    /\ ~loginResult.success
    /\ probeCalls = 1

\* C1 (amended): after a probe that reported "not logged in" and a classified
\* failure, the login returns success=false with exactly the classifier's flag
\* and error at once: no backoff sleep and no attempt follow it, so the probe is
\* not invoked again.  It has been invoked at most once per attempt made, and
\* exactly once in total when the classified failure ends the first attempt.
C1_ClassifiedFailureIsTerminal ==
  ClassifiedAfterProbe =>
    /\ lpc = "done"
    /\ loginResult.returned
    /\ ~loginResult.success
    /\ loginResult.invalidCredentials = lastFailure.invalidCredentials
    /\ loginResult.captchaDetected = lastFailure.captchaDetected
    /\ loginResult.rateLimited = lastFailure.rateLimited
    /\ loginResult.error = lastFailure.error
    /\ Len(backoffSleeps) = attempt
    /\ Len(attemptEnds) = attempt + 1
    /\ probeCalls >= 1
    /\ probeCalls <= attempt + 1
    /\ (attempt = 0 => probeCalls = 1)

\* The scenario of the unit test: maxRetries = 2, invalid credentials in the
\* first attempt, one probe call.
C1_Witness ==
  /\ lpc = "done"
  /\ maxRetries = 2
  /\ lastProbe = "notLoggedIn"
  /\ loginResult.returned
  /\ loginResult.invalidCredentials
  /\ probeCalls = 1
  /\ backoffSleeps = << >>

\* C2: with maxRetries = 1, after a first attempt that ended not authenticated
\* and unclassified the login does not return before the second attempt has
\* ended, and when the second attempt's probe reports "logged in" the result is
\* success=true and the probe has been invoked exactly twice.
C2_RetryThenSuccess ==
  (maxRetries = 1 /\ Len(attemptEnds) >= 1 /\ attemptEnds[1] = "unclassified") =>
    /\ (Len(attemptEnds) = 1 =>
          /\ ~loginResult.returned
          /\ attempt = 1
          /\ backoffSleeps = << BackoffDelay(0) >>)
    /\ (lastProbe = "loggedIn" =>
          /\ lpc = "done"
          /\ loginResult.returned
          /\ loginResult.success
          /\ loginResult.error = Undefined
          /\ probeCalls = 2)

C2_Witness ==
  /\ maxRetries = 1
  /\ attemptEnds = << "unclassified", "success" >>
  /\ loginResult.returned
  /\ loginResult.success
  /\ probeCalls = 2

\* C3: no argument passed to stagehand.act or stagehand.observe contains the
\* password or the username; each credential value is passed to locator.fill
\* only, the username on one of the email selectors and the password on the
\* password selector.
C3_CredentialsOnlyThroughFill ==
  /\ \A arg \in actArgs \cup observeArgs :
       /\ ~Contains(arg, credentials.password)
       /\ ~Contains(arg, credentials.username)
  /\ \A f \in fillLog :
       \/ f.value = credentials.username /\ f.selector \in Range(emailInputs)
       \/ f.value = credentials.password /\ f.selector = passwordSelector

\* A run with a thrown exception, a retry, the email fallback act, the failure
\* classifier and a filled password.
C3_Witness ==
  /\ lpc = "done"
  /\ "thrown" \in Range(attemptEnds)
  /\ Len(attemptEnds) >= 2
  /\ ActEmailFallback(credentials) \in actArgs
  /\ ObserveErrorQuery \in observeArgs
  /\ [selector |-> passwordSelector, value |-> credentials.password] \in fillLog
  /\ \E f \in fillLog : f.value = credentials.username

\* ------------------------------------------------------------------------
\* Properties of thresholdsMet and runGrammarlyOptimization (under SpecOpt)
\* ------------------------------------------------------------------------
MaximaValues == {5, 10, 15}

\* At least one percent is non-null and every non-null one is within its maximum.
Verified(ai, plagiarism, maxAi, maxPlagiarism) ==
  /\ (ai # NULL \/ plagiarism # NULL)
  /\ (ai # NULL => ai <= maxAi)
  /\ (plagiarism # NULL => plagiarism <= maxPlagiarism)

\* C4: thresholdsMet is true only if at least one percent is non-null and every
\* non-null one is at most its maximum (false when both are null), and so is
\* thresholds_met in every returned result.
C4_ThresholdsMetOnlyIfVerified ==
  /\ \A s \in ScoreChoices, a \in MaximaValues, p \in MaximaValues :
       ThresholdsMet(s, a, p) =>
         Verified(s.aiDetectionPercent, s.plagiarismPercent, a, p)
  /\ (outcome.kind = "result" /\ outcome.result.thresholds_met) =>
       Verified(outcome.result.ai_detection_percent,
                outcome.result.plagiarism_percent,
                maxAiPercent, maxPlagiarismPercent)

\* A result that met the thresholds with one percent unavailable.
C4_Witness ==
  /\ outcome.kind = "result"
  /\ outcome.result.thresholds_met
  /\ outcome.result.ai_detection_percent = NULL
  /\ outcome.result.plagiarism_percent = maxPlagiarismPercent

CallsOf(op) == { i \in 1..Len(calls) : calls[i].op = op }

\* The re-scored result of iteration k (history entry k+1) meets the thresholds.
MeetsAt(k) ==
  Verified(history[k + 1].ai_detection_percent,
           history[k + 1].plagiarism_percent,
           maxAiPercent, maxPlagiarismPercent)

\* C5: in optimize mode, once the re-scored result of an iteration k meets the
\* thresholds, no rewrite or scoring call of a later iteration is made (k
\* rewrites, k+1 scorings, history of length k+1), and a result has
\* iterations_used = k, thresholds_met = true and a history of length k+1.
C5_StopsAtFirstIterationMeetingThresholds ==
  mode = "optimize" =>
    \A k \in 1..(Len(history) - 1) :
      MeetsAt(k) =>
        /\ Len(history) = k + 1
        /\ Cardinality(CallsOf("rewrite")) = k
        /\ Cardinality(CallsOf("score")) = k + 1
        /\ iterationsUsed = k
        /\ reachedThresholds
        /\ outcome.kind = "result" =>
             /\ outcome.result.iterations_used = k
             /\ outcome.result.thresholds_met
             /\ Len(outcome.result.history) = k + 1

\* The baseline fails, iteration 1 meets the thresholds, one iteration is left.
C5_Witness ==
  /\ mode = "optimize"
  /\ maxIterations >= 2
  /\ outcome.kind = "result"
  /\ ~Verified(history[1].ai_detection_percent, history[1].plagiarism_percent,
               maxAiPercent, maxPlagiarismPercent)
  /\ MeetsAt(1)
  /\ outcome.result.iterations_used = 1
  /\ Len(outcome.result.history) = 2

SessionCreated == \E i \in CallsOf("createSession") : calls[i].ok

C7_TeardownFailureNeverChangesOutcome ==
  (opc = "done" /\ completion.kind # "none") =>
    /\ outcome = completion
    /\ outcome.kind = "error" => outcome.error # "deleteSession failed"
    /\ outcome.kind = "result" =>
         /\ outcome.result.history = history
         /\ outcome.result.final_text = currentText

\* A result returned although the teardown failed.
C7_Witness ==
  /\ opc = "done"
  /\ Len(calls) > 0
  /\ calls[Len(calls)].op = "deleteSession"
  /\ ~calls[Len(calls)].ok
  /\ outcome.kind = "result"
  /\ outcome.result.iterations_used = 1

\* ------------------------------------------------------------------------
\* Properties of the scoring task runner (checked under SpecTask)
\* ------------------------------------------------------------------------
TaskCallsOf(op) == { i \in 1..Len(taskCalls) : taskCalls[i].op = op }

ProbedNotAuthenticated ==
  \E i \in TaskCallsOf("probe") : ~taskCalls[i].result

\* No appConfig, or no service-account token in it.
NoCredentialIntegration ==
  \/ ~taskInput.appConfig.present
  \/ taskInput.appConfig.opServiceAccountToken = Undefined
  \/ taskInput.appConfig.opServiceAccountToken = ""

C9_AutoLoginOnlyAfterNotAuthenticated ==
  /\ \A i \in TaskCallsOf("getGrammarlyCredentials")
              \cup TaskCallsOf("attemptGrammarlyLogin") :
       \E j \in TaskCallsOf("probe") : j < i /\ ~taskCalls[j].result
  /\ \A i \in TaskCallsOf("attemptGrammarlyLogin") :
       \E j \in TaskCallsOf("getGrammarlyCredentials") :
         j < i /\ taskCalls[j].result
  /\ (\E j \in TaskCallsOf("probe") : taskCalls[j].result) =>
       /\ TaskCallsOf("getGrammarlyCredentials") = {}
       /\ TaskCallsOf("attemptGrammarlyLogin") = {}

\* Probe, credential fetch, login, then the scores.
C9_Witness ==
  /\ tpc = "done"
  /\ taskOutcome.kind = "scores"
  /\ TaskCallsOf("attemptGrammarlyLogin") # {}
  /\ TaskCallsOf("getGrammarlyCredentials") # {}

\* The secrets could not be resolved: the client was not created, a resolve
\* call rejected, or a field is empty.
FetchFails(arg) ==
  \/ ~arg.clientOk
  \/ arg.username \in {"rejects", ""}
  \/ arg.password \in {"rejects", ""}

\* C10: when the credential fetch fails, the run ends with GrammarlyAuthError
\* whose message contains "1Password error", and attemptGrammarlyLogin is not
\* invoked.
C10_FetchFailureIsAuthError ==
  \A i \in TaskCallsOf("getGrammarlyCredentials") :
    FetchFails(taskCalls[i].arg) =>
      /\ TaskCallsOf("attemptGrammarlyLogin") = {}
      /\ tpc = "done"
      /\ taskOutcome.kind = "error"
      /\ taskOutcome.name = "GrammarlyAuthError"
      /\ Contains(taskOutcome.message, "1Password error")

\* The password field of the 1Password item is empty.
C10_Witness ==
  /\ tpc = "done"
  /\ \E i \in TaskCallsOf("getGrammarlyCredentials") :
       /\ taskCalls[i].arg.clientOk
       /\ taskCalls[i].arg.username = "value"
       /\ taskCalls[i].arg.password = ""
  /\ taskOutcome.kind = "error"
  /\ Contains(taskOutcome.message, "1Password error")

\* C11: every failed login result ends the run with GrammarlyAuthError, never
\* with scores: the message says "auto-login failed", names the classified
\* reason when there is one, carries the login's error, and the error keeps the
\* supplied debugUrl; nothing is filled or extracted after it.
C11_FailedLoginIsAuthError ==
  \A i \in TaskCallsOf("attemptGrammarlyLogin") :
    ~taskCalls[i].result.success =>
      /\ i = Len(taskCalls)
      /\ tpc = "done"
      /\ taskOutcome.kind = "error"
      /\ taskOutcome.name = "GrammarlyAuthError"
      /\ taskOutcome.debugUrl = taskInput.debugUrl
      /\ Contains(taskOutcome.message, "auto-login failed")
      /\ Contains(taskOutcome.message, taskCalls[i].result.error)
      /\ taskCalls[i].result.invalidCredentials <=>
           Contains(taskOutcome.message, "invalid credentials")
      /\ taskCalls[i].result.captchaDetected <=>
           Contains(taskOutcome.message, "CAPTCHA detected")
      /\ taskCalls[i].result.rateLimited <=>
           Contains(taskOutcome.message, "Too many attempts")

\* A login that exhausted its retries, in a run that was given a debugUrl.
C11_Witness ==
  /\ tpc = "done"
  /\ taskInput.debugUrl # Undefined
  /\ \E i \in TaskCallsOf("attemptGrammarlyLogin") :
       /\ ~taskCalls[i].result.success
       /\ taskCalls[i].result.error = "Login failed after all retry attempts"
  /\ taskOutcome.kind = "error"
  /\ taskOutcome.debugUrl = taskInput.debugUrl

PrimaryExtracts == { i \in TaskCallsOf("extract") : taskCalls[i].arg = "primary" }
FallbackExtracts == { i \in TaskCallsOf("extract") : taskCalls[i].arg = "fallback" }

\* C12: a run makes at most one primary and one fallback extraction, the
\* fallback right after a primary extraction that failed and always then; a
\* fallback that succeeds ends the run with its scores, the notes marked as a
\* partial extraction; a fallback that fails ends it with the error of the
\* primary extraction.
C12_SingleFallbackExtraction ==
  /\ Cardinality(PrimaryExtracts) <= 1
  /\ Cardinality(FallbackExtracts) <= 1
  /\ \A i \in FallbackExtracts :
       /\ i = Len(taskCalls)
       /\ i - 1 \in PrimaryExtracts
       /\ ~taskCalls[i - 1].result
       /\ tpc = "done"
       /\ IF taskCalls[i].result
            THEN /\ taskOutcome.kind = "scores"
                 /\ taskOutcome.scores.notes = "partial extraction"
            ELSE /\ taskOutcome.kind = "error"
                 /\ taskOutcome.name = "Error"
                 /\ taskOutcome.message = << "Primary extraction failed" >>
  /\ \A i \in PrimaryExtracts :
       ~taskCalls[i].result =>
         \/ tpc = "fallbackExtract" /\ FallbackExtracts = {}
         \/ tpc = "done" /\ FallbackExtracts = {i + 1}
  /\ \A i \in PrimaryExtracts :
       taskCalls[i].result =>
         /\ FallbackExtracts = {}
         /\ tpc = "done"
         /\ taskOutcome.kind = "scores"
         /\ taskOutcome.scores.notes = "extracted"

\* Both extractions failed.
C12_Witness ==
  /\ tpc = "done"
  /\ Cardinality(TaskCallsOf("extract")) = 2
  /\ ~taskCalls[Len(taskCalls)].result
  /\ taskOutcome.kind = "error"
  /\ taskOutcome.message = << "Primary extraction failed" >>

\* The character at position i (from 1) of a text.
RECURSIVE CharAt(_, _)
CharAt(text, i) ==
  IF i <= Head(text).count THEN Head(text).char
  ELSE CharAt(Tail(text), i - Head(text).count)

\* Positions compared character by character: the ends, the middle and the
\* places where the runs of the input texts change.
SamplePositions == {1, 15, 4000, 7999, 8000}

\* The steps that follow the injection of the text.
AfterFill ==
  \/ tpc \in {"openDetection", "extract", "fallbackExtract"}
  \/ TaskCallsOf("extract") # {}

\* C13: the text is injected by exactly one fill of the content-editable
\* region, before the detection panel is opened; what is filled is the first
\* 8000 characters of the input when it is longer than 8000 characters and the
\* input itself otherwise.
C13_TruncatedTextFilledOnce ==
  /\ Cardinality(TaskCallsOf("fill")) <= 1
  /\ AfterFill => Cardinality(TaskCallsOf("fill")) = 1
  /\ \A i \in TaskCallsOf("fill") :
       /\ taskCalls[i].arg = "[contenteditable=true]"
       /\ \A j \in TaskCallsOf("extract") : i < j
       /\ IF TextLength(taskInput.text) > 8000
            THEN /\ TextLength(taskCalls[i].result) = 8000
                 /\ \A k \in SamplePositions :
                      k <= 8000 =>
                        CharAt(taskCalls[i].result, k) = CharAt(taskInput.text, k)
            ELSE taskCalls[i].result = taskInput.text

\* A text of 8001 characters whose last character differs from the others.
C13_Witness ==
  /\ tpc = "done"
  /\ taskOutcome.kind = "scores"
  /\ taskInput.text = << Run("a", 8000), Run("b", 1) >>
  /\ \E i \in TaskCallsOf("fill") : taskCalls[i].result = << Run("a", 8000) >>

\* C14: the task prompts handed to the automation agent by the scoring calls of
\* one run are the same whatever the text that is scored (the input or a
\* rewritten candidate): the text is not part of the prompt.
C14_TextNeverInTaskPrompt ==
  \A i \in CallsOf("score"), j \in CallsOf("score") :
    calls[i].task = calls[j].task

\* The text given to runGrammarlyOptimization.
InputText == 0

\* C15: in score_only mode no rewrite, analysis or summarization call is made
\* and at most one scoring call; a result comes after exactly one scoring call
\* (the baseline) and has final_text equal to the input text, iterations_used
\* 0, a history of length 1, the baseline's percents, and thresholds_met equal
\* to the threshold check on the baseline scores.
C15_ScoreOnlyScoresOnce ==
  mode = "score_only" =>
    /\ CallsOf("rewrite") = {}
    /\ CallsOf("analyze") = {}
    /\ CallsOf("summarize") = {}
    /\ Cardinality(CallsOf("score")) <= 1
    /\ outcome.kind = "result" =>
         /\ Cardinality(CallsOf("score")) = 1
         /\ \A i \in CallsOf("score") :
              /\ calls[i].ok
              /\ calls[i].text = InputText
              /\ outcome.result.thresholds_met =
                   ThresholdsMet(calls[i].scores, maxAiPercent, maxPlagiarismPercent)
              /\ outcome.result.ai_detection_percent = calls[i].scores.aiDetectionPercent
              /\ outcome.result.plagiarism_percent = calls[i].scores.plagiarismPercent
         /\ outcome.result.final_text = InputText
         /\ outcome.result.iterations_used = 0
         /\ Len(outcome.result.history) = 1

\* The scenario of the specification: AI 15 against a maximum of 10.
C15_Witness ==
  /\ mode = "score_only"
  /\ maxAiPercent = 10
  /\ outcome.kind = "result"
  /\ outcome.result.ai_detection_percent = 15
  /\ ~outcome.result.thresholds_met
  /\ outcome.result.iterations_used = 0
  /\ Len(outcome.result.history) = 1

\* C16: in analyze mode no rewrite or summarization call is made and at most
\* one analysis call, which comes after the baseline scoring; a result comes
\* after exactly one analysis, its notes are what the analysis returned, its
\* final_text is the input text, iterations_used is 0 and the history has
\* length 1.
C16_AnalyzeAnalysesOnce ==
  mode = "analyze" =>
    /\ CallsOf("rewrite") = {}
    /\ CallsOf("summarize") = {}
    /\ Cardinality(CallsOf("score")) <= 1
    /\ Cardinality(CallsOf("analyze")) <= 1
    /\ \A i \in CallsOf("analyze") :
         /\ calls[i].text = InputText
         /\ \E j \in CallsOf("score") :
              j < i /\ calls[j].ok /\ calls[i].scores = calls[j].scores
    /\ outcome.kind = "result" =>
         /\ Cardinality(CallsOf("analyze")) = 1
         /\ \A i \in CallsOf("analyze") :
              calls[i].ok /\ outcome.result.notes = calls[i].output
         /\ outcome.result.final_text = InputText
         /\ outcome.result.iterations_used = 0
         /\ Len(outcome.result.history) = 1

C16_Witness ==
  /\ mode = "analyze"
  /\ outcome.kind = "result"
  /\ outcome.result.notes = "analysis-B"
  /\ Cardinality(CallsOf("analyze")) = 1
  /\ outcome.result.iterations_used = 0

\* ------------------------------------------------------------------------
\* Retry exhaustion and backoff of attemptGrammarlyLogin (under SpecLogin)
\* ------------------------------------------------------------------------
Retryable == {"unclassified", "thrown"}

\* All maxRetries + 1 attempts were made and each ended Retryable.
AllAttemptsRetryable ==
  /\ Len(attemptEnds) = maxRetries + 1
  /\ \A i \in 1..Len(attemptEnds) : attemptEnds[i] \in Retryable

ExhaustedResult ==
  LoginAttemptResult(FALSE, "Login failed after all retry attempts",
                     FALSE, FALSE, FALSE)

RECURSIVE Pow2(_)
Pow2(k) == IF k = 0 THEN 1 ELSE 2 * Pow2(k - 1)

\* min(2000 * 2^k, 30000)
ExpectedDelay(k) ==
  IF 2000 * Pow2(k) > 30000 THEN 30000 ELSE 2000 * Pow2(k)

\* The largest k for which the delay function itself is evaluated.
MaxBackoffExponent == 6

\* The attempts that ended Retryable, so far.
RetryableEnds == { i \in 1..Len(attemptEnds) : attemptEnds[i] \in Retryable }

\* C18: the delay computed for failed attempt k is min(2000 * 2^k, 30000) ms
\* and at most 30000 ms; the k-th backoff sleep taken (k from 0) has that
\* delay whether attempt k ended unclassified or with an exception; a sleep is
\* taken after each Retryable attempt that another attempt follows and after
\* no other: there are never more sleeps than maxRetries, and none after the
\* final attempt.
C18_BackoffDelays ==
  /\ \A k \in 0..MaxBackoffExponent :
       /\ BackoffDelay(k) = ExpectedDelay(k)
       /\ BackoffDelay(k) <= 30000
  /\ \A i \in 1..Len(backoffSleeps) :
       /\ backoffSleeps[i] = ExpectedDelay(i - 1)
       /\ backoffSleeps[i] <= 30000
       /\ i <= Len(attemptEnds)
       /\ attemptEnds[i] \in Retryable
  /\ Len(backoffSleeps) <= maxRetries
  /\ Len(backoffSleeps) =
       IF Cardinality(RetryableEnds) <= maxRetries
         THEN Cardinality(RetryableEnds) ELSE maxRetries
  /\ lpc \notin {"start", "loop", "done", "idle"} => Len(backoffSleeps) = attempt

\* Two sleeps, one after an exception and one after an unclassified failure,
\* and none after the third and final attempt.
C18_Witness ==
  /\ lpc = "done"
  /\ maxRetries = 2
  /\ Len(attemptEnds) = 3
  /\ attemptEnds[1] = "thrown"
  /\ attemptEnds[2] = "unclassified"
  /\ attemptEnds[3] \in Retryable
  /\ backoffSleeps = << 2000, 4000 >>

\* ------------------------------------------------------------------------
\* detectLoginFailure (checked under SpecLogin)
\* ------------------------------------------------------------------------
FlagsSet(f) ==
  (IF f.captchaDetected THEN 1 ELSE 0) + (IF f.rateLimited THEN 1 ELSE 0)
  + (IF f.invalidCredentials THEN 1 ELSE 0)

Observed(items) == [threw |-> FALSE, items |-> items]

\* C19: for every non-empty observation detectLoginFailure sets at most one
\* flag: captchaDetected when the joined lowercase descriptions include a
\* CAPTCHA keyword, else rateLimited when they include a rate-limit keyword,
\* else invalidCredentials when they include an invalid-credential keyword,
\* else no flag and the error "Login error detected"; so it is for the
\* descriptions of the unit tests, the classifier being a function of the
\* observation alone, and the failure of every login attempt has at most one
\* flag.
C19_ClassifierPriority ==
  /\ lpc = "start" =>
       /\ \A obs \in ErrorObservations :
            (~obs.threw /\ Len(obs.items) > 0) =>
              LET f == DetectLoginFailure(TRUE, obs)
                  text == ErrorText(obs.items)
                  captcha == IncludesAny(text, CaptchaKeywords)
                  rate == IncludesAny(text, RateKeywords)
                  invalid == IncludesAny(text, InvalidKeywords)
              IN /\ FlagsSet(f) <= 1
                 /\ f.captchaDetected = captcha
                 /\ f.rateLimited = (~captcha /\ rate)
                 /\ f.invalidCredentials = (~captcha /\ ~rate /\ invalid)
                 /\ (~captcha /\ ~rate /\ ~invalid) => f.error = "Login error detected"
                 /\ FlagsSet(f) = 0 <=> f.error = "Login error detected"
       /\ DetectLoginFailure(TRUE,
            Observed(<< << "Invalid", "password", "error", "message" >> >>)).invalidCredentials
       /\ DetectLoginFailure(TRUE,
            Observed(<< << "Please", "verify", "you", "are", "not", "a", "robot" >> >>)).captchaDetected
       /\ DetectLoginFailure(TRUE,
            Observed(<< << "Too", "many", "login", "attempts", "try", "again", "later" >> >>)).rateLimited
       /\ DetectLoginFailure(TRUE,
            Observed(<< << "Too", "many", "invalid", "attempts" >> >>)).rateLimited
       /\ DetectLoginFailure(TRUE,
            Observed(<< << "wrong", "answer", "to", "the", "CAPTCHA" >>,
                        << "Too", "many", "invalid", "attempts" >> >>)).captchaDetected
       /\ DetectLoginFailure(TRUE,
            Observed(<< << "account", "not" >>, << "found" >> >>)).invalidCredentials
       /\ DetectLoginFailure(TRUE,
            Observed(<< << "Something", "happened" >>, << >> >>)).error = "Login error detected"
  /\ FlagsSet(lastFailure) <= 1
  /\ loginResult.returned => FlagsSet(loginResult) <= 1

\* A login ended by an observation that holds keywords of all three classes.
C19_Witness ==
  /\ lpc = "done"
  /\ lastProbe = "notLoggedIn"
  /\ lastFailure.captchaDetected
  /\ lastFailure = DetectLoginFailure(TRUE,
       Observed(<< << "wrong", "answer", "to", "the", "CAPTCHA" >>,
                   << "Too", "many", "invalid", "attempts" >> >>))
  /\ loginResult.captchaDetected
  /\ ~loginResult.rateLimited
  /\ ~loginResult.invalidCredentials

\* C20: on a signin, login or signup page checkGrammarlyAuthStatus returns
\* loggedIn=false with the URL it read and makes no observation call: every
\* probe of such a page in a run is negative, carries that URL, and is not
\* preceded by an observation of the logged-in indicators.
AuthObserveBefore(i) ==
  /\ i > 1
  /\ taskCalls[i - 1].op = "observe"
  /\ taskCalls[i - 1].arg = AuthIndicatorsQuery

C20_LoginPageMeansLoggedOutUnobserved ==
  /\ tpc = "start" =>
       \A url \in UrlChoices, obs \in ObserveChoices :
         LoginFamily(url) =>
           LET status == CheckGrammarlyAuthStatus(url, obs) IN
           /\ ~status.loggedIn
           /\ status.currentUrl = url
           /\ ~status.observed
  /\ \A i \in TaskCallsOf("probe") :
       taskCalls[i].arg \in {"signin", "login", "signup"} =>
         /\ ~taskCalls[i].result
         /\ ~AuthObserveBefore(i)

\* A run probed on the signup page, with no observation, that ended in the
\* authentication error.
C20_Witness ==
  /\ tpc = "done"
  /\ \E i \in TaskCallsOf("probe") :
       /\ taskCalls[i].arg = "signup"
       /\ ~taskCalls[i].result
       /\ ~AuthObserveBefore(i)
  /\ taskOutcome.kind = "error"
  /\ taskOutcome.name = "GrammarlyAuthError"

\* C21: with a page on a URL outside the login family, checkGrammarlyAuthStatus
\* observes once and resolves to a boolean: loggedIn is true exactly when the
\* observation succeeded and returned a non-empty list; an empty list and a
\* failing observation both give false, and the failure is not thrown on: the
\* run goes on to the scoring flow when the verdict is true and to the
\* not-authenticated branch (credential fetch or authentication error) when
\* it is false.
C21_AuthStatusFailsClosed ==
  /\ \A i \in TaskCallsOf("probe") :
       ~LoginFamily(taskCalls[i].arg) =>
         /\ AuthObserveBefore(i)
         /\ taskCalls[i].result \in BOOLEAN
         /\ taskCalls[i].result <=>
              (~taskCalls[i - 1].result.threw /\ taskCalls[i - 1].result.count > 0)
         /\ (i = Len(taskCalls) /\ tpc # "done") =>
              IF taskCalls[i].result
                THEN tpc = "newDocument"
                ELSE tpc \in {"notAuthenticated", "fetchCredentials"}
         /\ (i = Len(taskCalls) /\ tpc = "done") =>
              /\ ~taskCalls[i].result
              /\ taskOutcome.kind = "error"
              /\ taskOutcome.name = "GrammarlyAuthError"

\* A run whose observation of the logged-in indicators failed on the app page:
\* the verdict was false and the run ended in the authentication error.
C21_Witness ==
  /\ tpc = "done"
  /\ \E i \in TaskCallsOf("probe") :
       /\ taskCalls[i].arg = "app"
       /\ AuthObserveBefore(i)
       /\ taskCalls[i - 1].result.threw
       /\ ~taskCalls[i].result
  /\ taskOutcome.kind = "error"
  /\ taskOutcome.name = "GrammarlyAuthError"

\* C22: the threshold check is monotonic in the maxima: scores that fail
\* under the maxima (a, p) fail under every (a2, p2) with a2 <= a and p2 <= p;
\* so a result that did not meet the thresholds of its run would not have met
\* any lower ones with the scores it reports.
LoweredMaxima == {0, 5, 10, 15, 100}

ReportedScores ==
  [aiDetectionPercent |-> outcome.result.ai_detection_percent,
   plagiarismPercent |-> outcome.result.plagiarism_percent]

C22_ThresholdCheckMonotonic ==
  /\ opc = "start" =>
       \A s \in ScoreChoices, a \in LoweredMaxima, p \in LoweredMaxima :
         ~ThresholdsMet(s, a, p) =>
           \A a2 \in LoweredMaxima, p2 \in LoweredMaxima :
             (a2 <= a /\ p2 <= p) => ~ThresholdsMet(s, a2, p2)
  /\ (outcome.kind = "result" /\ ~outcome.result.thresholds_met) =>
       \A a2 \in LoweredMaxima, p2 \in LoweredMaxima :
         (a2 <= maxAiPercent /\ p2 <= maxPlagiarismPercent) =>
           ~ThresholdsMet(ReportedScores, a2, p2)

\* A result that failed on the AI percent alone, with lower maxima to compare:
\* AI 15 against 10, plagiarism 5 against 5.
C22_Witness ==
  /\ outcome.kind = "result"
  /\ ~outcome.result.thresholds_met
  /\ maxAiPercent = 10
  /\ maxPlagiarismPercent = 5
  /\ outcome.result.ai_detection_percent = 15
  /\ outcome.result.plagiarism_percent = 5

\* C23: the percentages passed to the progress callback in one run never
\* decrease, and they are fixed by the mode, the iteration index and
\* max_iterations: the reported sequence is a prefix of 5, 10, 100
\* (score_only), of 5, 10, 50, 100 (analyze), or of 5, 10, 15, then the
\* rewriting and re-scoring values of iterations 1..k, then 92, 100 (optimize
\* stopping after iteration k); and for every max_iterations in 1..20 each
\* such sequence is non-decreasing.
MaxIterationsAllowed == 20

NonDecreasing(seq) == \A i \in 1..(Len(seq) - 1) : seq[i] <= seq[i + 1]

IsPrefix(p, q) == Len(p) <= Len(q) /\ \A i \in 1..Len(p) : p[i] = q[i]

RECURSIVE LoopProgress(_, _)
LoopProgress(k, m) ==
  IF k = 0 THEN << >>
  ELSE LoopProgress(k - 1, m) \o << IterationProgressOf(k, m), ScoringProgressOf(k, m) >>

ProgressOfRun(md, m, k) ==
  CASE md = "score_only" -> << 5 * m, 10 * m, 100 * m >>
    [] md = "analyze" -> << 5 * m, 10 * m, 50 * m, 100 * m >>
    [] md = "optimize" ->
         << 5 * m, 10 * m, 15 * m >> \o LoopProgress(k, m) \o << 92 * m, 100 * m >>

C23_ProgressNonDecreasing ==
  /\ opc = "start" =>
       \A md \in Modes, m \in 1..MaxIterationsAllowed :
         \A k \in 1..m : NonDecreasing(ProgressOfRun(md, m, k))
  /\ NonDecreasing(progress)
  /\ \E k \in 1..maxIterations :
       IsPrefix(progress, ProgressOfRun(mode, maxIterations, k))

\* An optimization that stopped early, after the first of two iterations, and
\* reported 5, 10, 15, 15, 50, 92, 100 (times max_iterations = 2).
C23_Witness ==
  /\ mode = "optimize"
  /\ maxIterations = 2
  /\ outcome.kind = "result"
  /\ outcome.result.iterations_used = 1
  /\ progress = << 10, 20, 30, 30, 100, 184, 200 >>

\* ------------------------------------------------------------------------
\* Properties of a Claude request (checked under SpecClaude)
\* ------------------------------------------------------------------------
\* C24: withTimeout races the operation against the timer: once it has
\* settled no timer it created is pending, and its outcome is the operation's
\* value or error when the operation settled first and a TimeoutError when
\* the timer fired first.
C24_WithTimeoutRace ==
  /\ wpc = "done" => timeoutId # "pending"
  /\ (settlement # Pending /\ events # << >>) =>
       IF events[1] = "fnSettled"
         THEN settlement = fnPromise
         ELSE settlement = Rejected(TimeoutError(timeoutMs))

\* C25: chooseClaudeModel returns the standard tier (sonnet) exactly when the
\* text has at most 12000 characters and there are at most 8 iterations, and
\* the higher tier (opus) otherwise: (12000, 8) is standard, 12001 characters
\* or 9 iterations select the higher tier; so it is for the tier chosen for
\* every request.
StandardTier(textLength, iterations) == textLength <= 12000 /\ iterations <= 8

C25_ModelTierSelection ==
  /\ wpc = "start" =>
       /\ \A t \in TextLengthChoices, i \in IterationChoices :
            /\ ChooseClaudeModel(t, i) \in {"sonnet", "opus"}
            /\ ChooseClaudeModel(t, i) = "sonnet" <=> StandardTier(t, i)
       /\ ChooseClaudeModel(12000, 8) = "sonnet"
       /\ ChooseClaudeModel(12001, 5) = "opus"
       /\ ChooseClaudeModel(12001, 8) = "opus"
       /\ ChooseClaudeModel(5000, 9) = "opus"
       /\ ChooseClaudeModel(12000, 9) = "opus"
       /\ ChooseClaudeModel(1, 1) = "sonnet"
       /\ ChooseClaudeModel(50000, 20) = "opus"
  /\ modelTier # Undefined =>
       /\ modelTier \in {"sonnet", "opus"}
       /\ modelTier = "sonnet" <=> StandardTier(request.textLength, request.iterations)

\* The boundary request, 12000 characters and 8 iterations, got the standard tier.
C25_Witness ==
  /\ request = [textLength |-> 12000, iterations |-> 8]
  /\ modelTier = "sonnet"
  /\ wpc = "done"

\* C26: for each of the two UI actions of the scoring task runner (create a
\* new document, open the detection panel) one observation is followed by one
\* act call, which receives the first observed element when the observation
\* has one and the fixed instruction of the action when the observation is
\* empty or its first element is absent; no other act call is made.
UiActions ==
  { [query |-> "new document", fallback |-> NewDocumentFallback, after |-> "fillText"],
    [query |-> "AI detection", fallback |-> DetectionFallback, after |-> "extract"] }

ObservesOf(action) ==
  { i \in TaskCallsOf("observe") : taskCalls[i].arg = action.query }

ActsOf(action) ==
  { i \in TaskCallsOf("act") :
      taskCalls[i].arg \in {"element:" \o action.query, action.fallback} }

C26_ObserveThenAct ==
  /\ \A action \in UiActions :
       /\ Cardinality(ObservesOf(action)) <= 1
       /\ Cardinality(ActsOf(action)) = Cardinality(ObservesOf(action))
       /\ tpc = action.after => Cardinality(ActsOf(action)) = 1
       /\ \A i \in ObservesOf(action) :
            /\ i < Len(taskCalls)
            /\ taskCalls[i + 1].op = "act"
            /\ taskCalls[i + 1].arg =
                 (IF taskCalls[i].result.count > 0 /\ taskCalls[i].result.first
                    THEN "element:" \o action.query
                    ELSE action.fallback)
  /\ TaskCallsOf("act") = UNION { ActsOf(action) : action \in UiActions }

\* A run that acted on the observed new-document element and, the detection
\* observation holding one undefined element, fell back to the instruction.
C26_Witness ==
  /\ tpc = "done"
  /\ \E i, j \in TaskCallsOf("act") :
       /\ i < j
       /\ taskCalls[i].arg = "element:new document"
       /\ taskCalls[j].arg = DetectionFallback
       /\ taskCalls[j - 1].result.count = 1
       /\ ~taskCalls[j - 1].result.first

\* ------------------------------------------------------------------------
\* Retries of attemptGrammarlyLogin (checked under SpecLogin)
\* ------------------------------------------------------------------------
\* Attempt i (index i - 1) was followed by a backoff sleep and the loop went
\* on to a further attempt instead of returning.
RetriedAfter(i) ==
  /\ Len(backoffSleeps) >= i
  /\ i = Len(attemptEnds) => (lpc # "done" /\ attempt = i /\ ~loginResult.returned)

\* The attempt ended at the empty password-field observation with no flag.
PasswordMissingUnflagged(i) ==
  /\ attemptEnds[i] = "passwordMissing"
  /\ FlagsSet(loginResult) = 0

\* C27 as stated: every attempt that ends without authentication and without
\* any of the three flags, and has index < maxRetries, is followed by a
\* backoff sleep and a further attempt.
C27_UnflaggedAttemptRetried ==
  \A i \in 1..Len(attemptEnds) :
    ((attemptEnds[i] \in Retryable \/ PasswordMissingUnflagged(i))
       /\ i - 1 < maxRetries) => RetriedAfter(i)

\* C27 (amended): every attempt with index < maxRetries that ends with an
\* exception, or at the auth probe without authentication and without any of
\* the three flags from the classifier, is followed by a backoff sleep and a
\* further attempt; an attempt that ends at an empty password-field
\* observation returns at once, with no sleep, whatever its index.
C27_ProbedOrThrownAttemptRetried ==
  \A i \in 1..Len(attemptEnds) :
    /\ (attemptEnds[i] \in Retryable /\ i - 1 < maxRetries) => RetriedAfter(i)
    /\ attemptEnds[i] = "passwordMissing" =>
         /\ i = Len(attemptEnds)
         /\ lpc = "done"
         /\ loginResult.returned
         /\ ~loginResult.success
         /\ Len(backoffSleeps) = i - 1

\* The first of two allowed attempts ended at the probe with the generic
\* error and no flag; the sleep was taken and the second attempt is next.
C27_Witness ==
  /\ maxRetries >= 1
  /\ attemptEnds = << "unclassified" >>
  /\ lastFailure.error = "Login error detected"
  /\ FlagsSet(lastFailure) = 0
  /\ backoffSleeps = << 2000 >>
  /\ lpc = "loop"

\* C28: an attempt whose password-field observation is empty returns
\* success=false without the password fill, the submit-login act and the auth
\* probe (none of them in this attempt; when it is the first attempt, none at
\* all); the result carries the classifier's error and flag when the
\* classifier reported an error and the error "Password field not found" when
\* it reported nothing.
EndedAtPasswordMissing ==
  /\ Len(attemptEnds) > 0
  /\ attemptEnds[Len(attemptEnds)] = "passwordMissing"

C28_PasswordFieldNotFound ==
  /\ lpc = "passwordMissing" =>
       stepsDone \cap {"fillPassword", "submitLogin", "probe", "classify"} = {}
  /\ EndedAtPasswordMissing =>
       /\ lpc = "done"
       /\ loginResult.returned
       /\ ~loginResult.success
       /\ "observePassword" \in stepsDone
       /\ stepsDone \cap {"fillPassword", "submitLogin", "probe", "classify"} = {}
       /\ lastProbe = "none"
       /\ Len(attemptEnds) = 1 =>
            /\ probeCalls = 0
            /\ ActSubmitLogin \notin actArgs
            /\ \A f \in fillLog : f.selector # passwordSelector
       /\ loginResult.error \in
            {"Password field not found", "CAPTCHA challenge detected",
             "Rate limit triggered", "Invalid credentials", "Login error detected"}
       /\ loginResult.error = "Password field not found" <=> lastFailure = NoFailure
       /\ lastFailure # NoFailure =>
            /\ loginResult.error = lastFailure.error
            /\ loginResult.captchaDetected = lastFailure.captchaDetected
            /\ loginResult.rateLimited = lastFailure.rateLimited
            /\ loginResult.invalidCredentials = lastFailure.invalidCredentials
       /\ loginResult.captchaDetected <=> loginResult.error = "CAPTCHA challenge detected"
       /\ loginResult.rateLimited <=> loginResult.error = "Rate limit triggered"
       /\ loginResult.invalidCredentials <=> loginResult.error = "Invalid credentials"

\* The first attempt found no password field and the classifier saw a CAPTCHA.
C28_Witness ==
  /\ attemptEnds = << "passwordMissing" >>
  /\ lpc = "done"
  /\ loginResult.error = "CAPTCHA challenge detected"
  /\ loginResult.captchaDetected
  /\ probeCalls = 0

\* C29: detectLoginFailure never throws: it returns the empty classification
\* (no error, no flag) when there is no page, when the observation is empty and
\* when the observation call fails, and a classification otherwise; so a
\* classifying step never ends its attempt with an exception, and the failure
\* it leaves is the empty classification or one of the four classifications.
Classifications ==
  { "CAPTCHA challenge detected", "Rate limit triggered", "Invalid credentials",
    "Login error detected" }

C29_DetectLoginFailureNeverThrows ==
  /\ lpc = "start" =>
       \A obs \in ErrorObservations :
         /\ DetectLoginFailure(FALSE, obs) = NoFailure
         /\ (obs.threw \/ Len(obs.items) = 0) => DetectLoginFailure(TRUE, obs) = NoFailure
         /\ (~obs.threw /\ Len(obs.items) > 0) =>
              DetectLoginFailure(TRUE, obs).error \in Classifications
  /\ lastFailure = NoFailure \/ lastFailure.error \in Classifications
  /\ lastFailure.error = Undefined => FlagsSet(lastFailure) = 0
  /\ "classify" \in stepsDone =>
       /\ attemptEnds[Len(attemptEnds)] \in {"terminal", "unclassified"}
       /\ lastFailure = NoFailure => attemptEnds[Len(attemptEnds)] = "unclassified"
  /\ (EndedAtPasswordMissing /\ lastFailure = NoFailure) =>
       loginResult.error = "Password field not found"

\* The classifier returned the empty classification after the probe and the
\* attempt ended unclassified, to be retried.
C29_Witness ==
  /\ "classify" \in stepsDone
  /\ lastFailure = NoFailure
  /\ attemptEnds = << "unclassified" >>
  /\ lpc = "loop"
  /\ ~loginResult.returned

\* ------------------------------------------------------------------------
\* The email step of a login attempt (checked under SpecLogin)
\* ------------------------------------------------------------------------
Selectors == 1..Len(emailInputs)
TriedSelectors == { k \in Selectors : TriedStep[k] \in stepsDone }
FillCalls == { k \in Selectors : FillStep[k] \in stepsDone }
FallbackActIssued == "emailFallbackAct" \in stepsDone

\* The email step of the current attempt is over.
EmailStepOver ==
  lpc \in {"submitEmail", "observePassword", "passwordMissing", "fillPassword",
           "submitLogin", "probe", "classify"}

\* C30 as stated: in each attempt locator.fill is called on the first visible
\* locator of the list only, no locator after it is touched, the fallback act
\* for the email field is issued iff locator.fill was called on no locator,
\* and locator.fill and the fallback act never both happen in one attempt.
C30_FirstVisibleLocatorFilled ==
  /\ \A k \in FillCalls : \A j \in TriedSelectors : j <= k
  /\ Cardinality(FillCalls) <= 1
  /\ EmailStepOver => (FallbackActIssued <=> FillCalls = {})
  /\ ~(FallbackActIssued /\ FillCalls # {})

\* C30 (amended): in each attempt the locators are tried in list order and the
\* username goes, by locator.fill, into the first one that is visible and
\* whose fill succeeds; a visible locator whose fill throws is passed over for
\* the next one; no locator after the one filled is touched; the fallback
\* act for the email field is issued iff no fill succeeded, and a successful
\* fill and the fallback act never both happen in one attempt.
C30_FirstFillableLocatorFilled ==
  /\ \A k \in TriedSelectors : \A j \in 1..k : j \in TriedSelectors
  /\ FillCalls \subseteq TriedSelectors
  /\ \A k \in FillCalls :
       [selector |-> emailInputs[k], value |-> credentials.username] \in fillLog
  /\ emailFilled =>
       /\ sel \in FillCalls
       /\ \A j \in TriedSelectors : j <= sel
  /\ (~emailFilled /\ lpc # "fillEmail") => (TriedSelectors = {} \/ TriedSelectors = Selectors)
  /\ EmailStepOver => (FallbackActIssued <=> ~emailFilled)
  /\ FallbackActIssued => (~emailFilled /\ TriedSelectors = Selectors)

\* The first locator was visible but its fill threw, the second was not
\* visible, the third was filled and the fourth left alone.
C30_Witness ==
  /\ emailFilled
  /\ sel = 3
  /\ FillCalls = {1, 3}
  /\ TriedSelectors = {1, 2, 3}
  /\ ~FallbackActIssued
  /\ lpc = "submitEmail"

\* ------------------------------------------------------------------------
\* The order of the steps of a login attempt (checked under SpecLogin)
\* ------------------------------------------------------------------------
\* The email went into a locator or the fallback act was issued.
EmailFillDone == emailFilled \/ "emailFallbackAct" \in stepsDone

\* C31: within one attempt the steps happen only in the order navigate,
\* email-login pre-step, email fill, submit-email act, password observation,
\* password fill, submit-login act, auth probe, classification: a step has
\* been done only if the one before it has; navigation and the pre-step come
\* before every other step; the password is filled only after a non-empty
\* password observation, the probe is called only after the submit-login act,
\* and the classifier after the probe only when the probe said not logged in.
C31_StepOrder ==
  /\ lpc \in {"navigate", "observeEmailButton", "actEmailButton", "observeEmailField"}
       => stepsDone = {}
  /\ "emailFallbackAct" \in stepsDone => "tryEmail" \in stepsDone
  /\ "submitEmail" \in stepsDone => EmailFillDone
  /\ "observePassword" \in stepsDone => "submitEmail" \in stepsDone
  /\ "passwordObserved" \in stepsDone => "observePassword" \in stepsDone
  /\ "fillPassword" \in stepsDone => "passwordObserved" \in stepsDone
  /\ "submitLogin" \in stepsDone => "fillPassword" \in stepsDone
  /\ "probe" \in stepsDone => ("submitLogin" \in stepsDone /\ lastProbe # "none")
  /\ lastProbe # "none" => "probe" \in stepsDone
  /\ "classify" \in stepsDone => ("probe" \in stepsDone /\ lastProbe = "notLoggedIn")
  /\ lpc = "fillEmail" => stepsDone \subseteq ({"tryEmail"} \cup Range(TriedStep) \cup Range(FillStep))
  /\ lpc = "submitEmail" => (EmailFillDone /\ "submitEmail" \notin stepsDone)
  /\ lpc = "fillPassword" => ("passwordObserved" \in stepsDone /\ "fillPassword" \notin stepsDone)
  /\ lpc = "probe" => ("submitLogin" \in stepsDone /\ "probe" \notin stepsDone)
  /\ lpc = "classify" => (lastProbe = "notLoggedIn" /\ "classify" \notin stepsDone)
  /\ (loginResult.returned /\ loginResult.success) =>
       (lastProbe = "loggedIn" /\ "classify" \notin stepsDone)

\* An attempt that went through every step, the classifier included.
C31_Witness ==
  /\ {"tryEmail", "submitEmail", "observePassword", "passwordObserved",
       "fillPassword", "submitLogin", "probe", "classify"} \subseteq stepsDone
  /\ ActFirstEmailButton \in actArgs
  /\ lastProbe = "notLoggedIn"
  /\ Len(attemptEnds) = 1

\* The probe said not authenticated and auto-login is unavailable (no
\* credential integration, or the credential fetch failed) or did not succeed.
AuthenticationUnavailable ==
  /\ ProbedNotAuthenticated
  /\ \/ NoCredentialIntegration
     \/ \E i \in TaskCallsOf("getGrammarlyCredentials") : ~taskCalls[i].result
     \/ \E i \in TaskCallsOf("attemptGrammarlyLogin") : ~taskCalls[i].result.success

\* The calls of the scoring flow proper: text injection, the acts, the
\* observations of the two UI actions, and the extractions.
ScoringFlowCalls ==
  TaskCallsOf("fill") \cup TaskCallsOf("act") \cup TaskCallsOf("extract")
    \cup { i \in TaskCallsOf("observe") : taskCalls[i].arg # AuthIndicatorsQuery }

ResolvedScorings == { i \in CallsOf("score") : calls[i].ok }
NthScoring(k) ==
  CHOOSE i \in ResolvedScorings :
    Cardinality({ j \in ResolvedScorings : j <= i }) = k

\* Every entry holds its position as iteration number and the percent fields
\* of the scoring it was pushed after; the first is the baseline of the input.
HistoryFollowsScorings ==
  /\ Len(history) = Cardinality(ResolvedScorings)
  /\ \A k \in 1..Len(history) :
       /\ history[k].iteration = k - 1
       /\ history[k].ai_detection_percent = calls[NthScoring(k)].scores.aiDetectionPercent
       /\ history[k].plagiarism_percent = calls[NthScoring(k)].scores.plagiarismPercent
  /\ history # << >> => calls[NthScoring(1)].text = InputText

\* The history of a returned result is the whole history and has one entry
\* per iteration used, and the baseline.
ReturnedHistoryComplete ==
  outcome.kind = "result" =>
    /\ outcome.result.history = history
    /\ Len(outcome.result.history) = outcome.result.iterations_used + 1

\* C33: the history is append-only and ordered: the first entry is iteration 0
\* with the baseline scores of the unmodified input, entries carry the
\* iteration numbers 0,1,2,..., an entry once appended is never changed or
\* removed, a returned history has iterations_used + 1 entries, and the
\* percent fields are the extracted values, null staying null.
C33_HistoryAppendOnly ==
  /\ [](HistoryFollowsScorings /\ ReturnedHistoryComplete)
  /\ [][IsPrefix(history, history')]_vars

\* A returned optimize run of two iterations whose history holds a null.
C33_Witness ==
  /\ outcome.kind = "result"
  /\ Len(outcome.result.history) = 3
  /\ outcome.result.iterations_used = 2
  /\ outcome.result.history[2].ai_detection_percent = NULL
  /\ outcome.result.history[3].plagiarism_percent = NULL
  /\ outcome.result.history[1].ai_detection_percent = 15

BothUnavailable(scores) ==
  scores.aiDetectionPercent = NULL /\ scores.plagiarismPercent = NULL

\* The rewrite calls that resolved.
ResolvedRewrites == { i \in CallsOf("rewrite") : calls[i].ok }

\* The loop is over: the summary is next, or the run returned from it.
LoopOver == opc = "summarize" \/ CallsOf("summarize") # {}

\* C34: in optimize mode, when every scoring call returns null for both
\* percent fields, the loop ends only after max_iterations rewrites and
\* re-scorings, and the result has iterations_used = max_iterations and
\* thresholds_met = false.
C34_NoScoresRunsFullBudget ==
  (mode = "optimize" /\ \A i \in ResolvedScorings : BothUnavailable(calls[i].scores)) =>
    /\ ~reachedThresholds
    /\ LoopOver =>
         /\ Cardinality(ResolvedRewrites) = maxIterations
         /\ Cardinality(CallsOf("rewrite")) = maxIterations
         /\ Cardinality(ResolvedScorings) = maxIterations + 1
         /\ Cardinality(CallsOf("score")) = maxIterations + 1
         /\ iterationsUsed = maxIterations
    /\ outcome.kind = "result" =>
         /\ LoopOver
         /\ outcome.result.iterations_used = maxIterations
         /\ ~outcome.result.thresholds_met
         /\ outcome.result.ai_detection_percent = NULL
         /\ outcome.result.plagiarism_percent = NULL

\* A budget of two iterations used up without a single score.
C34_Witness ==
  /\ mode = "optimize"
  /\ maxIterations = 2
  /\ outcome.kind = "result"
  /\ Cardinality(ResolvedScorings) = 3
  /\ \A i \in ResolvedScorings : BothUnavailable(calls[i].scores)
  /\ outcome.result.iterations_used = 2
  /\ ~outcome.result.thresholds_met

\* The scoring and rewrite calls of the run, in the order they were made.
IsLoopCall(c) == c.op \in {"score", "rewrite"}
LoopCalls == SelectSeq(calls, IsLoopCall)

\* Baseline scoring, then rewrite and scoring in turn; a call is made only
\* after the one before it resolved. Each rewrite is given the text and the
\* scores of the scoring before it, each re-scoring the text that the rewrite
\* before it returned.
RewriteAndScoringAlternate ==
  \A k \in 1..Len(LoopCalls) :
    /\ LoopCalls[k].op = IF k % 2 = 1 THEN "score" ELSE "rewrite"
    /\ k = 1 => LoopCalls[k].text = InputText
    /\ k > 1 => LoopCalls[k - 1].ok
    /\ (k > 1 /\ k % 2 = 0) =>
         /\ LoopCalls[k].text = LoopCalls[k - 1].text
         /\ LoopCalls[k].scores = LoopCalls[k - 1].scores
    /\ (k > 1 /\ k % 2 = 1) => LoopCalls[k].text = LoopCalls[k - 1].output

\* The summary is asked for once, in optimize mode only, after every rewrite
\* and scoring, when the loop ended by the thresholds or by exhaustion, and with
\* the whole history.
SummarizedOnceAfterLoop ==
  /\ Cardinality(CallsOf("summarize")) <= 1
  /\ mode # "optimize" => (CallsOf("summarize") = {} /\ CallsOf("rewrite") = {})
  /\ \A s \in CallsOf("summarize") :
       /\ \A i \in CallsOf("score") \cup CallsOf("rewrite") : i < s /\ calls[i].ok
       /\ calls[s].task.thresholdsMet \/ calls[s].task.iterationsUsed = maxIterations
       /\ calls[s].task.history = history
       /\ Len(calls[s].task.history) = Cardinality(CallsOf("score"))
       /\ calls[s].task.iterationsUsed = Cardinality(CallsOf("rewrite"))
  /\ (outcome.kind = "result" /\ mode = "optimize") =>
       \E s \in CallsOf("summarize") : calls[s].ok

\* C35: in optimize mode rewrite and scoring strictly alternate after the
\* baseline, each rewrite being given the current text and the most recent
\* scores and each scoring exactly the rewritten text; a run that returns
\* iterations_used = k made k rewrite calls and k + 1 scoring calls; the
\* summary is asked for exactly once, after the loop, with the full history,
\* and never in score_only or analyze mode.
C35_RewriteAndScoringAlternate ==
  /\ RewriteAndScoringAlternate
  /\ SummarizedOnceAfterLoop
  /\ (outcome.kind = "result" /\ mode = "optimize") =>
       /\ Cardinality(CallsOf("rewrite")) = outcome.result.iterations_used
       /\ Cardinality(CallsOf("score")) = outcome.result.iterations_used + 1
       /\ Cardinality(CallsOf("summarize")) = 1

\* Two iterations: the second rewrite works on the output of the first.
C35_Witness ==
  /\ outcome.kind = "result"
  /\ mode = "optimize"
  /\ outcome.result.iterations_used = 2
  /\ Len(LoopCalls) = 5
  /\ LoopCalls[4].op = "rewrite"
  /\ LoopCalls[4].text = 1
  /\ LoopCalls[5].text = 2
  /\ Cardinality(CallsOf("summarize")) = 1

\* C36: one run creates exactly one browser session; every scoring call,
\* baseline and re-scorings alike, is issued against the id that creation
\* returned; a scoring or rewrite call is issued only when the call before it
\* has resolved; and once the teardown of the session has started no further
\* call is issued.
C36_OneSessionUsedSequentially ==
  /\ Cardinality(CallsOf("createSession")) <= 1
  /\ \A i \in CallsOf("createSession") : i = 1 /\ (calls[i].ok <=> Truthy(sessionId))
  /\ CallsOf("createSession") = {} => (sessionId = NullSession /\ calls = << >>)
  /\ \A i \in CallsOf("score") \cup CallsOf("deleteSession") :
       /\ calls[i].session = sessionId
       /\ sessionId \in SessionIds
       /\ calls[1].op = "createSession" /\ calls[1].ok
  /\ \A i \in 2..Len(calls) :
       calls[i].op # "deleteSession" => calls[i - 1].ok
  /\ Cardinality(CallsOf("deleteSession")) <= 1
  /\ \A d \in CallsOf("deleteSession") : d = Len(calls) /\ opc = "done"
  /\ outcome.kind = "result" =>
       (Cardinality(CallsOf("createSession")) = 1 /\ CallsOf("score") # {})

\* Three scorings in the second session, which is then closed.
C36_Witness ==
  /\ outcome.kind = "result"
  /\ sessionId = "session-2"
  /\ Cardinality(CallsOf("score")) = 3
  /\ \A i \in CallsOf("score") : calls[i].session = "session-2"
  /\ calls[Len(calls)].op = "deleteSession"
  /\ calls[Len(calls)].session = "session-2"

\* The error with which a collaborator call rejects.
FailureOf(op) ==
  CASE op = "createSession" -> "createSession failed"
    [] op = "score" -> "score failed"
    [] op = "rewrite" -> "rewrite failed"
    [] op = "analyze" -> "analysis failed"
    [] op = "summarize" -> "summarize failed"

\* The calls, other than the teardown, that rejected.
FailedCalls == { i \in 1..Len(calls) : ~calls[i].ok /\ calls[i].op # "deleteSession" }

\* C37: when session creation, a scoring, a rewrite, the analysis or the
\* summary fails, the run rejects with that error and returns no result
\* object, whatever history or text it had gathered.
C37_FailureRejectsWithoutResult ==
  \A i \in FailedCalls :
    /\ completion = Thrown(FailureOf(calls[i].op))
    /\ outcome.kind # "result"
    /\ opc \in {"finally", "done"}
    /\ opc = "done" => outcome = Thrown(FailureOf(calls[i].op))
    /\ \A j \in (i + 1)..Len(calls) : calls[j].op = "deleteSession"

\* The second rewrite fails after two scorings were gathered.
C37_Witness ==
  /\ opc = "done"
  /\ outcome = Thrown("rewrite failed")
  /\ Len(history) = 2
  /\ currentText # InputText
  /\ \E i \in FailedCalls : calls[i].op = "rewrite"

\* The baseline scores, once they are in the history, as a scores object.
BaselineScores ==
  [aiDetectionPercent |-> history[1].ai_detection_percent,
   plagiarismPercent |-> history[1].plagiarism_percent]

\* C38: in optimize mode the threshold check is never applied to the
\* baseline: the loop is left only after at least one rewrite and one
\* re-scoring, so every optimize result has iterations_used >= 1 and a history
\* of at least 2 entries, even when the baseline meets both thresholds.
C38_BaselineNeverEndsOptimize ==
  mode = "optimize" =>
    /\ Len(history) <= 1 => (~reachedThresholds /\ ~LoopOver)
    /\ LoopOver => (ResolvedRewrites # {} /\ Cardinality(ResolvedScorings) >= 2)
    /\ outcome.kind = "result" =>
         /\ outcome.result.iterations_used >= 1
         /\ Len(outcome.result.history) >= 2

\* The baseline already met both thresholds and one iteration was still run.
C38_Witness ==
  /\ mode = "optimize"
  /\ outcome.kind = "result"
  /\ ThresholdsMet(BaselineScores, maxAiPercent, maxPlagiarismPercent)
  /\ BaselineScores.aiDetectionPercent # NULL
  /\ BaselineScores.plagiarismPercent # NULL
  /\ outcome.result.iterations_used = 1
  /\ Len(outcome.result.history) = 2

\* The last scoring call that resolved.
LastScoring == calls[NthScoring(Cardinality(ResolvedScorings))]

\* C40: every returned result agrees with the last scoring call: its percent
\* fields are those of the last history entry, its final_text is the text
\* that call was given (the output of the last rewrite in optimize mode, the
\* unmodified input otherwise), and thresholds_met is the threshold check
\* applied to the scores that call returned.
C40_ResultMatchesLastScoring ==
  outcome.kind = "result" =>
    LET result == outcome.result
        last == result.history[Len(result.history)]
    IN /\ result.ai_detection_percent = last.ai_detection_percent
       /\ result.plagiarism_percent = last.plagiarism_percent
       /\ result.ai_detection_percent = LastScoring.scores.aiDetectionPercent
       /\ result.plagiarism_percent = LastScoring.scores.plagiarismPercent
       /\ result.final_text = LastScoring.text
       /\ result.thresholds_met =
            ThresholdsMet(LastScoring.scores, maxAiPercent, maxPlagiarismPercent)
       /\ mode # "optimize" => result.final_text = InputText
       /\ mode = "optimize" =>
            \E i \in ResolvedRewrites :
              /\ \A j \in ResolvedRewrites : j <= i
              /\ result.final_text = calls[i].output

\* The first candidate scored better than the second, which is the one returned.
C40_Witness ==
  /\ outcome.kind = "result"
  /\ mode = "optimize"
  /\ Len(outcome.result.history) = 3
  /\ outcome.result.history[2].plagiarism_percent = 5
  /\ outcome.result.history[2].ai_detection_percent = 15
  /\ outcome.result.history[3].plagiarism_percent = 15
  /\ outcome.result.history[3].ai_detection_percent = 15
  /\ outcome.result.final_text = 2
  /\ outcome.result.plagiarism_percent = 15
  /\ ~outcome.result.thresholds_met

\* ------------------------------------------------------------------------
\* Termination of attemptGrammarlyLogin.  Every awaited collaborator call
\* settles and every sleep ends, so a step that can be taken is taken.
\* ------------------------------------------------------------------------
SpecLoginFair == SpecLogin /\ WF_vars(LoginNext)

\* The attempts that ended, the no-page return not being one.
AttemptsEnded == { i \in 1..Len(attemptEnds) : attemptEnds[i] # "noPage" }

\* At most maxRetries + 1 attempts and probe calls, at most maxRetries sleeps.
LoginBudgetKept ==
  /\ Cardinality(AttemptsEnded) <= maxRetries + 1
  /\ attempt <= maxRetries + 1
  /\ lpc \notin {"start", "loop", "done"} =>
       (attempt <= maxRetries /\ Cardinality(AttemptsEnded) = attempt)
  /\ probeCalls <= maxRetries + 1
  /\ probeCalls <= attempt + 1
  /\ Len(backoffSleeps) <= maxRetries
  /\ Len(backoffSleeps) <= attempt

\* The call ends with a LoginAttemptResult; success only after a probe that
\* reported logged in, and then with no error and no flag.
LoginReturnsResult ==
  /\ lpc = "done" <=> loginResult.returned
  /\ loginResult # NoResult =>
       /\ loginResult.returned
       /\ loginResult.success \in BOOLEAN
       /\ loginResult.success =>
            /\ lastProbe = "loggedIn"
            /\ probeCalls >= 1
            /\ attemptEnds[Len(attemptEnds)] = "success"
            /\ loginResult.error = Undefined
            /\ ~loginResult.invalidCredentials
            /\ ~loginResult.captchaDetected
            /\ ~loginResult.rateLimited
       /\ ~loginResult.success => lastProbe # "loggedIn"

\* Without a page the call returns at once and touches nothing.
NoPageNoInteraction ==
  ~hasPage =>
    /\ lpc \in {"start", "done"}
    /\ observeArgs = {} /\ actArgs = {} /\ fillLog = {}
    /\ stepsDone = {} /\ probeCalls = 0 /\ attempt = 0
    /\ backoffSleeps = << >>
    /\ lpc = "done" =>
         loginResult = LoginAttemptResult(FALSE, "No page available in Stagehand context",
                                          FALSE, FALSE, FALSE)

\* C39: attemptGrammarlyLogin always ends by returning a LoginAttemptResult,
\* whatever observe, act, navigation, fill or the probe do: with maxRetries = N
\* it makes at most N + 1 attempts, N + 1 probe calls and N backoff sleeps, it
\* returns success=true only in an attempt whose probe reported logged in, with
\* no error and no flag, and without a page it returns success=false with
\* "No page available in Stagehand context" and no observe, act, navigation
\* or fill.
C39_LoginTerminatesWithResult ==
  /\ [](LoginBudgetKept /\ LoginReturnsResult /\ NoPageNoInteraction)
  /\ <>(lpc = "done")

\* Every attempt of the largest budget threw, and the call still returned.
C39_Witness ==
  /\ lpc = "done"
  /\ maxRetries = MaxRetriesBound
  /\ Cardinality(AttemptsEnded) = maxRetries + 1
  /\ \A i \in AttemptsEnded : attemptEnds[i] = "thrown"
  /\ Len(backoffSleeps) = maxRetries
  /\ loginResult.returned
  /\ ~loginResult.success

====
